---- MODULE Spec2Model ----
(***************************************************************************)
(* A model of the container-runtime-config controller of the               *)
(* machine-config-operator                                                 *)
(* (pkg/controller/container-runtime-config/                               *)
(*  container_runtime_config_controller.go).                               *)
(*                                                                         *)
(* The state is the cluster store (ContainerRuntimeConfig objects,         *)
(* MachineConfig objects, the seccomp marker ConfigMap, the                *)
(* ControllerConfig and the image singletons), the two rate-limited work   *)
(* queues of the controller, and the position and locals of every worker   *)
(* goroutine.  The informer cache is read at the store's current state.    *)
(***************************************************************************)
EXTENDS Integers, Sequences, FiniteSets, TLC

----------------------------------------------------------------------------
(* Program constants                                                       *)

\* const maxRetries
maxRetries == 15

\* updateBackoff.Steps: attempts of retry.RetryOnConflict
updateBackoffSteps == 5

\* version.Hash of the running controller build
Hash == "v2"

\* the build-version annotation of an artifact written by an earlier build
OldHash == "v1"

\* the artifact carries no build-version annotation
NoHash == "none"

\* the key pre-seeded into the runtime-config queue by New
SentinelKey == "force-sync-on-upgrade"

\* the one key of the image queue
ImgKey == "openshift-config"

\* mcfgv1.ContainerRuntimeConfigSuccess / ContainerRuntimeConfigFailure
Success == "Success"
Failure == "Failure"

----------------------------------------------------------------------------
(* Bounds of the model                                                     *)

\* number of changes the environment makes to intent objects in a behaviour
MaxEnv == 1

\* number of store calls the environment makes fail in a behaviour
MaxFaults == 1

\* finalizers of an object at the start of its cascade
MaxFinalizers == 3

----------------------------------------------------------------------------
(* The universe of objects                                                 *)

\* names of ContainerRuntimeConfig objects
Intents == {"a"}

\* MachineConfigPools, in the order the lister returns them
PoolList == <<"master", "worker">>

Pools == {PoolList[n] : n \in 1..Len(PoolList)}

\* the label every pool the operator ships carries
builtInLabelKey == "mco-built-in"

\* p.Labels
PoolLabels(p) == {p, builtInLabelKey}

QIds == {"ctr", "img"}

Keys(q) == IF q = "ctr" THEN Intents \cup {SentinelKey} ELSE {ImgKey}

\* worker goroutines: Run starts `workers` loops on the runtime-config queue
\* and exactly one on the image queue
CtrWorkers == {"w1", "w2"}

ImgWorkers == {"iw"}

Workers == CtrWorkers \cup ImgWorkers

QueueOf(w) == IF w \in CtrWorkers THEN "ctr" ELSE "img"

----------------------------------------------------------------------------
(* Label selectors (metav1.LabelSelector, labels.Selector)                 *)

\* a nil *LabelSelector
SelNil == [nil |-> TRUE, req |-> {}]

\* a selector requiring the labels ls; Sel({}) is the empty selector
Sel(ls) == [nil |-> FALSE, req |-> ls]

\* metav1.LabelSelectorAsSelector: nil gives labels.Nothing(), a selector
\* without requirements gives labels.Everything()
SelectorEmpty(s) == ~s.nil /\ s.req = {}

SelectorMatches(s, labels) == ~s.nil /\ s.req \subseteq labels

----------------------------------------------------------------------------
(* ContainerRuntimeConfig specs                                            *)

\* pidsLimit is a pointer: <<>> is nil, <<n>> is set
SpecPids == [sel |-> Sel({"worker"}), logLevel |-> "", pids |-> <<2048>>, overlay |-> 0]

SpecOverlay == [sel |-> Sel({"worker"}), logLevel |-> "", pids |-> <<2048>>, overlay |-> 8]

SpecBoth == [sel |-> Sel({builtInLabelKey}), logLevel |-> "debug", pids |-> <<>>, overlay |-> 0]

SpecBadLevel == [sel |-> Sel({"worker"}), logLevel |-> "bogus", pids |-> <<>>, overlay |-> 0]

SpecNilSel == [sel |-> SelNil, logLevel |-> "debug", pids |-> <<>>, overlay |-> 0]

SpecEmptySel == [sel |-> Sel({}), logLevel |-> "", pids |-> <<2048>>, overlay |-> 0]

Specs == {SpecPids, SpecOverlay, SpecBoth, SpecBadLevel, SpecNilSel, SpecEmptySel}

\* validateUserContainerRuntimeConfig: the log level is one of the enum, the
\* pids limit is positive, sizes are not negative
validateUserContainerRuntimeConfig(spec) ==
    /\ spec.logLevel \in {"", "error", "info", "debug"}
    /\ (spec.pids = <<>> \/ spec.pids[1] > 0)
    /\ spec.overlay >= 0

----------------------------------------------------------------------------
(* Objects of the store                                                    *)

\* a ContainerRuntimeConfig that is not in the store
NoCfg == [name |-> "", exists |-> FALSE, deleting |-> FALSE, gen |-> 0,
          spec |-> SpecPids, finalizers |-> <<>>, suffix |-> 0, notes |-> FALSE,
          obsGen |-> 0, conds |-> <<>>, uid |-> 0]

\* a ContainerRuntimeConfig as the API server creates it: generation 1, no
\* status, no finalizers; notes says whether it carries an annotation of the
\* user's, suffix is the MC-name-suffix annotation (0: absent), uid tells
\* the objects created under one name apart
NewCfg(i, spec, notes) ==
    [name |-> i, exists |-> TRUE, deleting |-> FALSE, gen |-> 1, spec |-> spec,
     finalizers |-> <<>>, suffix |-> 0, notes |-> notes, obsGen |-> 0, conds |-> <<>>,
     uid |-> 0]

\* names of MachineConfigs: <<kind, pool, suffix>>
\*   "ctr":     99-<pool>-generated-containerruntime[-<suffix>]
\*   "seccomp": the crio-seccomp-use-default MachineConfig of the pool
\*   "reg":     99-<pool>-generated-registries
Suffixes == 0..1

MCNames == ({"ctr"} \X Pools \X Suffixes) \cup ({"seccomp", "reg"} \X Pools \X {0})

\* a MachineConfig that is not in the store
\* touched: another client of the API server has updated the object since
\* the controller wrote it (its resourceVersion is not the one of that write)
NoMC == [exists |-> FALSE, version |-> NoHash, owner |-> "", files |-> {}, gen |-> 0, touched |-> FALSE, ownerUid |-> 0]

\* strings.Contains(mc.Name, "generated-containerruntime")
IsGeneratedCtrCfg(name) == name[1] = "ctr"

\* wrapErrorWithCondition: a nil error gives the success condition, an error
\* a failure condition with the error's message
wrapErrorWithCondition(err) ==
    IF err = "" THEN [type |-> Success, message |-> "Success"]
    ELSE [type |-> Failure, message |-> err]

----------------------------------------------------------------------------
(* State                                                                   *)

VARIABLES
    queues,     \* queues[q]: the rate-limited work queue q
    wk,         \* wk[w]: position and locals of worker goroutine w
    ctrcfgs,    \* ctrcfgs[i]: the ContainerRuntimeConfig named i
    mcs,        \* mcs[n]: the MachineConfig named n
    cm,         \* the crio-seccomp-use-default-when-empty ConfigMap exists
    cc,         \* the ControllerConfig exists
    img,        \* the Image and ClusterVersion singletons
    envLeft,    \* changes the environment may still make to intents
    faultsLeft, \* store calls the environment may still make fail
    clean       \* clean[i]: the last pass of i succeeded and i is unchanged since

vars == <<queues, wk, ctrcfgs, mcs, cm, cc, img, envLeft, faultsLeft, clean>>

----------------------------------------------------------------------------
(* The work queue (k8s.io/client-go/util/workqueue): a FIFO of keys with   *)
(* the dirty and processing sets, the delaying queue's waiting entries and *)
(* the rate limiter's per-key failure count                                *)

EmptyQueue(q) ==
    [queue |-> <<>>, dirty |-> {}, processing |-> {}, waiting |-> {},
     failures |-> [k \in Keys(q) |-> 0]]

\* Add: a key already dirty is dropped; a key being processed is only marked
\* dirty and queued again by Done
QAdd(q, k) ==
    IF k \in q.dirty THEN q
    ELSE IF k \in q.processing THEN [q EXCEPT !.dirty = @ \cup {k}]
    ELSE [q EXCEPT !.dirty = @ \cup {k}, !.queue = Append(@, k)]

\* Get of the head of a non-empty queue
QGet(q) ==
    [q EXCEPT !.queue = Tail(@),
              !.processing = @ \cup {Head(q.queue)},
              !.dirty = @ \ {Head(q.queue)}]

\* Done: the key leaves processing and, if marked dirty meanwhile, is queued
QDone(q, k) ==
    IF k \in q.dirty
    THEN [q EXCEPT !.processing = @ \ {k}, !.queue = Append(@, k)]
    ELSE [q EXCEPT !.processing = @ \ {k}]

\* AddAfter with a positive delay: the key waits in the delaying queue
QAddAfter(q, k) == [q EXCEPT !.waiting = @ \cup {k}]

QNumRequeues(q, k) == q.failures[k]

\* AddRateLimited: AddAfter(k, rateLimiter.When(k)); When counts the failure
QAddRateLimited(q, k) == QAddAfter([q EXCEPT !.failures[k] = @ + 1], k)

QForget(q, k) == [q EXCEPT !.failures[k] = 0]

----------------------------------------------------------------------------
(* Informer event handlers of ContainerRuntimeConfig objects.  Each takes  *)
(* and returns the runtime-config queue.                                   *)

\* an enqueue that appends the key whatever the queue is doing with it
enqueueUnconditionally(q, cfg) == [q EXCEPT !.queue = Append(@, cfg.name)]

\* enqueue: queue.Add(key of cfg)
enqueue(q, cfg) == QAdd(q, cfg.name)

\* a trigger that fires on every update event
TriggerAlways(old, new) == TRUE

\* a trigger that looks at the spec alone
TriggerOnSpecChange(old, new) == old.spec # new.spec

\* ctrConfigTriggerObjectChange: DeletionTimestamp is a pointer, so the
\* comparison is false only when both are nil
ctrConfigTriggerObjectChange(old, new) ==
    \/ old.deleting \/ new.deleting
    \/ old.spec # new.spec

updateContainerRuntimeConfig(q, old, new) ==
    IF ctrConfigTriggerObjectChange(old, new) THEN enqueue(q, new) ELSE q

addContainerRuntimeConfig(q, cfg) == enqueue(q, cfg)

----------------------------------------------------------------------------
(* Store calls of a pass.  A pass threads a record st through its calls:   *)
(*   st.cfgs, st.mcs  the objects of the store                             *)
(*   st.q             the runtime-config queue (informer events enqueue)   *)
(*   st.w             the kinds of write call the pass has made            *)
(*   st.n             the number of status conditions the pass has recorded *)

\* the API server removes an object that carries a deletion timestamp once
\* its last finalizer is gone
Removed(cfg) == cfg.deleting /\ cfg.finalizers = <<>>

\* a write of the ContainerRuntimeConfig new by a call of the given kind,
\* and the informer event that follows it.  touched: the call changes the
\* object even when the modelled fields stay the same (a condition's
\* timestamp).  The delete event of a removed object carries no finalizers,
\* so deleteContainerRuntimeConfig's cascadeDelete returns at once.
WriteCfg(st, new, kind, touched) ==
    LET old == st.cfgs[new.name]
    IN [st EXCEPT !.cfgs[new.name] = IF Removed(new) THEN NoCfg ELSE new,
                  !.q = IF Removed(new) \/ (new = old /\ ~touched) THEN @
                        ELSE updateContainerRuntimeConfig(@, old, new),
                  !.w = @ \cup {kind}]

PutMC(st, name, mc, kind) ==
    [st EXCEPT !.mcs[name] = mc, !.w = @ \cup {kind}]

DeleteMC(st, name) ==
    [st EXCEPT !.mcs[name] = NoMC, !.w = @ \cup {"mcDelete"}]

Last(seq) == seq[Len(seq)]

\* a recording that leaves the list as it is
KeepConditions(conds, cond) == conds

\* a recording that always appends
AppendCondition(conds, cond) == Append(conds, cond)

\* the condition list after recording cond: appended when the list is empty
\* or the message differs from the last one, else the last entry overwritten
RecordCondition(conds, cond) ==
    IF Len(conds) = 0 \/ cond.message # Last(conds).message
    THEN Append(conds, cond)
    ELSE [conds EXCEPT ![Len(conds)] = cond]

\* syncStatusOnly(cfg, err): re-reads the object from the lister, sets
\* ObservedGeneration to its generation, records the condition and calls
\* UpdateStatus; a failed read is only logged
syncStatusOnly(st, cfg, err) ==
    LET newcfg == st.cfgs[cfg.name]
    IN IF ~newcfg.exists THEN st
       ELSE [WriteCfg(st,
                      [newcfg EXCEPT !.obsGen = newcfg.gen,
                                     !.conds = RecordCondition(@, wrapErrorWithCondition(err))],
                      "status", TRUE)
             EXCEPT !.n = @ + 1]

\* addAnnotation(cfg, MCNameSuffixAnnotationKey, val): SetAnnotations puts a
\* map holding only that key on the object read from the lister
addAnnotation(st, cfg, val) ==
    LET newcfg == st.cfgs[cfg.name]
    IN WriteCfg(st, [newcfg EXCEPT !.suffix = val, !.notes = FALSE], "annotate", FALSE)

\* an attachment that appends the name whether or not it is in the list
addFinalizerAgain(st, cfg, mcName) ==
    LET newcfg == st.cfgs[cfg.name]
    IN IF ~newcfg.exists THEN st
       ELSE WriteCfg(st, [newcfg EXCEPT !.finalizers = Append(@, mcName)], "patch", FALSE)

\* addFinalizerToContainerRuntimeConfig: the name is appended to the
\* finalizers of the object read from the lister unless it is among them,
\* and the difference is sent as a merge patch
addFinalizerToContainerRuntimeConfig(st, cfg, mcName) ==
    LET newcfg == st.cfgs[cfg.name]
        InSlice == \E n \in 1..Len(newcfg.finalizers) : newcfg.finalizers[n] = mcName
    IN IF ~newcfg.exists THEN st
       ELSE WriteCfg(st,
                     [newcfg EXCEPT !.finalizers = IF InSlice THEN @ ELSE Append(@, mcName)],
                     "patch", FALSE)

\* ctrCfg.Finalizers after append(ctrCfg.Finalizers[:0], ctrCfg.Finalizers[1:]...):
\* the elements are moved one place down inside the slice of the object the
\* pass holds, whose length stays
ShiftedInPlace(fins) ==
    [n \in 1..Len(fins) |-> IF n < Len(fins) THEN fins[n + 1] ELSE fins[n]]

RECURSIVE PoppedList(_, _)
\* the list the closure of popFinalizerFromContainerRuntimeConfig sends in
\* the attempt that follows the given number of attempts that ended in a
\* conflict: ctrCfg.Finalizers[1:] of the slice as the earlier attempts left
\* it
PoppedList(fins, conflicts) ==
    IF conflicts = 0 THEN Tail(fins) ELSE PoppedList(ShiftedInPlace(fins), conflicts - 1)

\* a pop that sends the finalizers of the object the pass read as they are
popNoFinalizer(st, ctrCfg, conflicts) ==
    LET newcfg == st.cfgs[ctrCfg.name]
    IN IF ~newcfg.exists THEN st
       ELSE WriteCfg(st, [newcfg EXCEPT !.finalizers = ctrCfg.finalizers], "patch", FALSE)

\* a pop that also records a success on the object
popAndRecord(st, ctrCfg, conflicts) ==
    LET newcfg == st.cfgs[ctrCfg.name]
    IN IF ~newcfg.exists THEN st
       ELSE syncStatusOnly(
                WriteCfg(st, [newcfg EXCEPT !.finalizers = PoppedList(ctrCfg.finalizers, conflicts)],
                         "patch", FALSE),
                ctrCfg, "")

\* popFinalizerFromContainerRuntimeConfig under RetryOnConflict: the patch
\* that gets through replaces the finalizers of the object read from the
\* lister by the list of its attempt
popFinalizerFromContainerRuntimeConfig(st, ctrCfg, conflicts) ==
    LET newcfg == st.cfgs[ctrCfg.name]
    IN IF ~newcfg.exists THEN st
       ELSE WriteCfg(st, [newcfg EXCEPT !.finalizers = PoppedList(ctrCfg.finalizers, conflicts)],
                     "patch", FALSE)

\* a selection by Matches alone
PoolMatched(sel, p) == SelectorMatches(sel, PoolLabels(p))

\* getPoolsForContainerRuntimeConfig: the pools the selector matches, in
\* lister order; an empty selector is made to match nothing
PoolSelected(sel, p) ==
    ~(SelectorEmpty(sel) \/ ~SelectorMatches(sel, PoolLabels(p)))

getPoolsForContainerRuntimeConfig(cfg) ==
    SelectSeq(PoolList, LAMBDA p : PoolSelected(cfg.spec.sel, p))

SetMax(S) == CHOOSE x \in S : \A y \in S : y <= x

\* getManagedKeyCtrCfg: the name of the MachineConfig of cfg on the pool:
\* with the suffix of cfg's annotation when it has one; else without suffix
\* when no other ContainerRuntimeConfig targets the pool, else with the
\* next suffix after the largest one annotated
getManagedKeyCtrCfg(pool, cfg, cfgs) ==
    LET others == {j \in Intents \ {cfg.name} :
                      cfgs[j].exists /\ PoolSelected(cfgs[j].spec.sel, pool)}
    IN IF cfg.suffix # 0 THEN <<"ctr", pool, cfg.suffix>>
       ELSE IF others = {} THEN <<"ctr", pool, 0>>
       ELSE <<"ctr", pool, SetMax({cfgs[j].suffix : j \in others}) + 1>>

\* a generation that writes storage.conf whether or not the overlay size is
\* set
GeneratedFilesWithStorage(spec, mergeOK) ==
    {[file |-> "storage.conf", overlay |-> spec.overlay, logLevel |-> "", pids |-> <<>>]}
    \cup (IF spec.logLevel # "" \/ spec.pids # <<>>
          THEN {[file |-> "crio-dropin", overlay |-> 0, logLevel |-> spec.logLevel,
                 pids |-> spec.pids]}
          ELSE {})

\* the files of the Ignition config generated for a spec, each with the
\* values it is generated from: storage.conf when the overlay size is set
\* and the merge worked, the CRI-O drop-in when the log level, the pids
\* limit or the log size is set
GeneratedFiles(spec, mergeOK) ==
    (IF spec.overlay # 0 /\ mergeOK
     THEN {[file |-> "storage.conf", overlay |-> spec.overlay, logLevel |-> "", pids |-> <<>>]}
     ELSE {})
    \cup (IF spec.logLevel # "" \/ spec.pids # <<>>
          THEN {[file |-> "crio-dropin", overlay |-> 0, logLevel |-> spec.logLevel,
                 pids |-> spec.pids]}
          ELSE {})

----------------------------------------------------------------------------
(* Worker goroutines                                                       *)

NoName == <<"", "", 0>>

\* a worker blocked in queue.Get
\* (fins: the finalizers of the object that the closure of a finalizer
\* patch has read from the lister; listed: the names cleanUpDuplicatedMC
\* found with another build version in its list and has still to delete)
IdleW == [pc |-> "idle", key |-> "", cfg |-> NoCfg, pools |-> <<>>, err |-> "",
          name |-> NoName, seen |-> NoMC, writes |-> {}, second |-> FALSE,
          nstatus |-> 0, fins |-> <<>>, listed |-> {}]

St0(w) ==
    [cfgs |-> ctrcfgs, mcs |-> mcs, q |-> queues["ctr"], w |-> wk[w].writes,
     n |-> wk[w].nstatus]

\* the locals r of a pass after the calls threaded through st
After(r, st) == [r EXCEPT !.writes = st.w, !.nstatus = st.n]

\* the store and the queue after the calls threaded through st
Commit(st) ==
    /\ ctrcfgs' = st.cfgs
    /\ mcs' = st.mcs
    /\ queues' = [queues EXCEPT !["ctr"] = st.q]

\* return err from syncContainerRuntimeConfig
Return(r, err) == [r EXCEPT !.pc = "handle", !.err = err]

\* return ctrl.syncStatusOnly(cfg, err): the status is recorded next
ReturnStatus(r, err) == [r EXCEPT !.pc = "status", !.err = err]

\* the end of one iteration of the loop over mcpPools
NextPool(r) ==
    [r EXCEPT !.pools = Tail(@), !.name = NoName, !.seen = NoMC,
              !.pc = IF Len(r.pools) > 1 THEN "poolGet" ELSE "cleanup"]

\* processNextWorkItem, up to the call of the sync handler: queue.Get
processNextWorkItem(w) ==
    /\ w \in CtrWorkers
    /\ wk[w].pc = "idle"
    /\ queues["ctr"].queue # <<>>
    /\ queues' = [queues EXCEPT !["ctr"] = QGet(@)]
    /\ wk' = [wk EXCEPT ![w] = [IdleW EXCEPT !.pc = "seccomp",
                                             !.key = Head(queues["ctr"].queue)]]
    /\ UNCHANGED <<ctrcfgs, mcs, cm, cc, img, envLeft, faultsLeft, clean>>

\* createSeccompUseDefaultMC, and the return on the sentinel key: nothing to
\* do when the marker ConfigMap exists; else the seccomp MachineConfig is
\* created on every built-in pool that lacks it, then the ConfigMap; a
\* Create that fails (of the MachineConfig of pool number failAt, or of the
\* ConfigMap) ends the pass with its error
SeccompMC == [exists |-> TRUE, version |-> NoHash, owner |-> "", files |-> {"seccomp"}, gen |-> 0, touched |-> FALSE, ownerUid |-> 0]

createSeccompUseDefaultMC(w) ==
    /\ w \in CtrWorkers
    /\ wk[w].pc = "seccomp"
    /\ LET missing == {k \in 1..Len(PoolList) : ~mcs[<<"seccomp", PoolList[k], 0>>].exists}
           next == IF wk[w].key = SentinelKey THEN "handle" ELSE "fetch"
           cmCreate == Len(PoolList) + 1
       IN IF cm
          THEN /\ wk' = [wk EXCEPT ![w].pc = next]
               /\ UNCHANGED <<mcs, cm, faultsLeft>>
          ELSE \E failAt \in (IF faultsLeft > 0 THEN missing \cup {0, cmCreate} ELSE {0}) :
                 LET created == {PoolList[k] : k \in {j \in missing : failAt = 0 \/ j < failAt}}
                 IN /\ mcs' = [n \in MCNames |->
                                  IF n[1] = "seccomp" /\ n[2] \in created THEN SeccompMC
                                  ELSE mcs[n]]
                    /\ cm' = (failAt = 0)
                    /\ faultsLeft' = IF failAt = 0 THEN faultsLeft ELSE faultsLeft - 1
                    /\ wk' = [wk EXCEPT ![w] =
                                [(IF failAt = 0 THEN [@ EXCEPT !.pc = next]
                                  ELSE Return(@, "failed to create the crio-seccomp-use-default MC"))
                                 EXCEPT !.writes = @ \cup (IF failAt = 0 THEN {"cmCreate"} ELSE {})
                                            \cup (IF created = {} THEN {} ELSE {"seccompCreate"})]]
    /\ UNCHANGED <<queues, ctrcfgs, cc, img, envLeft, clean>>

\* syncContainerRuntimeConfig from the read of the object to the list of
\* pools
syncFetch(w) ==
    /\ w \in CtrWorkers
    /\ wk[w].pc = "fetch"
    /\ LET cfg == ctrcfgs[wk[w].key]
           r == [wk[w] EXCEPT !.cfg = cfg, !.second = clean[wk[w].key]]
           mcpPools == getPoolsForContainerRuntimeConfig(cfg)
       IN wk' = [wk EXCEPT ![w] =
            IF ~cfg.exists THEN Return(wk[w], "")
            ELSE IF cfg.deleting
                 THEN IF Len(cfg.finalizers) > 0
                      THEN [r EXCEPT !.pc = "cascadeDelete"]
                      ELSE Return(r, "")
            ELSE IF ~validateUserContainerRuntimeConfig(cfg.spec)
                 THEN ReturnStatus(r, "invalid ContainerRuntimeConfig")
            ELSE IF ~cc THEN Return(r, "could not get ControllerConfig")
            ELSE IF Len(mcpPools) = 0
                 THEN ReturnStatus(r, "could not find any MachineConfigPool")
            ELSE [r EXCEPT !.pc = "poolGet", !.pools = mcpPools]]
    /\ UNCHANGED <<queues, ctrcfgs, mcs, cm, cc, img, envLeft, faultsLeft, clean>>

\* a skip condition that does not look at the build version
SkipWhateverVersion(cfg, mc) ==
    /\ mc.exists
    /\ cfg.obsGen >= cfg.gen
    /\ cfg.conds[Len(cfg.conds)].type = Success

\* a skip condition that never holds: every pass regenerates
SkipNever(cfg, mc) == FALSE

\* the skip condition: the generation was seen, the last sync did not fail
\* and the MachineConfig was generated by this build
SkipPool(cfg, mc) ==
    /\ mc.exists
    /\ cfg.obsGen >= cfg.gen
    /\ Last(cfg.conds).type = Success
    /\ mc.version = Hash

\* one iteration of the loop over mcpPools, up to the skip
syncPoolGet(w) ==
    /\ w \in CtrWorkers
    /\ wk[w].pc = "poolGet"
    /\ LET r == wk[w]
           managedKey == getManagedKeyCtrCfg(Head(r.pools), r.cfg, ctrcfgs)
           mc == mcs[managedKey]
       IN wk' = [wk EXCEPT ![w] =
            IF mc.exists /\ r.cfg.obsGen >= r.cfg.gen /\ Len(r.cfg.conds) = 0
            THEN [r EXCEPT !.pc = "panic"]
            ELSE IF SkipPool(r.cfg, mc) THEN NextPool(r)
            ELSE [r EXCEPT !.pc = "poolApply", !.name = managedKey, !.seen = mc]]
    /\ UNCHANGED <<queues, ctrcfgs, mcs, cm, cc, img, envLeft, faultsLeft, clean>>

\* the MachineConfig the pass writes for cfg: the generated Ignition config,
\* the build-version annotation and the owner reference, which holds the
\* name and the UID of cfg (gen: the generation of the spec the files were
\* generated from)
RenderedMC(cfg, mergeOK) ==
    [exists |-> TRUE, version |-> Hash, owner |-> cfg.name,
     files |-> GeneratedFiles(cfg.spec, mergeOK), gen |-> cfg.gen, touched |-> FALSE, ownerUid |-> cfg.uid]

\* the Create or Update under retry.RetryOnConflict fails: Create of a name
\* that exists; Update of an object that is gone, or that changed since the
\* pass read it (the closure sends the same object on every attempt)
WriteFails(seen, cur) == IF seen.exists THEN cur # seen ELSE cur.exists

\* one iteration of the loop over mcpPools, after the skip: the storage
\* merge and its status, the suffix annotation, the create or update of the
\* MachineConfig and the finalizer
syncPoolApply(w) ==
    /\ w \in CtrWorkers
    /\ wk[w].pc = "poolApply"
    /\ \E mergeOK \in (IF wk[w].cfg.spec.overlay # 0 THEN BOOLEAN ELSE {TRUE}),
          fail \in (IF faultsLeft > 0 THEN BOOLEAN ELSE {FALSE}) :
         LET r == wk[w]
             cfg == r.cfg
             st1 == IF cfg.spec.overlay # 0
                    THEN syncStatusOnly(St0(w), cfg,
                             IF mergeOK THEN "" ELSE "could not update container runtime config")
                    ELSE St0(w)
             needSuffix == ~r.seen.exists /\ r.name[3] # 0 /\ cfg.suffix = 0
             suffixErr == needSuffix /\ ~st1.cfgs[cfg.name].exists
             st2 == IF needSuffix /\ ~suffixErr THEN addAnnotation(st1, cfg, r.name[3]) ELSE st1
             writeErr == fail \/ WriteFails(r.seen, st2.mcs[r.name])
             st3 == PutMC(st2, r.name, RenderedMC(cfg, mergeOK),
                          IF r.seen.exists THEN "mcUpdate" ELSE "mcCreate")
             st4 == addFinalizerToContainerRuntimeConfig(st3, cfg, r.name)
         IN IF suffixErr
            THEN /\ ~fail
                 /\ Commit(st1)
                 /\ wk' = [wk EXCEPT ![w] = ReturnStatus(After(r, st1),
                                "could not update annotation for containerRuntimeConfig")]
                 /\ UNCHANGED faultsLeft
            ELSE IF writeErr
            THEN /\ Commit(st2)
                 /\ wk' = [wk EXCEPT ![w] = ReturnStatus(After(r, st2),
                                "could not Create/Update MachineConfig")]
                 /\ faultsLeft' = IF fail THEN faultsLeft - 1 ELSE faultsLeft
            ELSE /\ Commit(st4)
                 /\ wk' = [wk EXCEPT ![w] = NextPool(After(r, st4))]
                 /\ UNCHANGED faultsLeft
    /\ UNCHANGED <<cm, cc, img, envLeft, clean>>

\* cleanUpDuplicatedMC, and the call of it after the loop: every generated
\* containerruntime MachineConfig whose build version is not this build's
\* is deleted
DuplicatedMCs(ms) ==
    {n \in MCNames : IsGeneratedCtrCfg(n) /\ ms[n].exists /\ ms[n].version # Hash}

cleanUpDuplicatedMC(w) ==
    /\ w \in CtrWorkers
    /\ wk[w].pc = "cleanup"
    /\ \E fail \in (IF faultsLeft > 0 THEN BOOLEAN ELSE {FALSE}) :
         IF fail
         THEN /\ wk' = [wk EXCEPT ![w] = Return(wk[w], "error listing or deleting containerruntime machine configs")]
              /\ faultsLeft' = faultsLeft - 1
              /\ UNCHANGED mcs
         ELSE /\ mcs' = [n \in MCNames |-> IF n \in DuplicatedMCs(mcs) THEN NoMC ELSE mcs[n]]
              /\ wk' = [wk EXCEPT ![w].pc = "status", ![w].err = "",
                                  ![w].writes = @ \cup (IF DuplicatedMCs(mcs) = {} THEN {}
                                                        ELSE {"mcDelete"})]
              /\ UNCHANGED faultsLeft
    /\ UNCHANGED <<queues, ctrcfgs, cm, cc, img, envLeft, clean>>

\* a syncStatusOnly that returns the error of the status update when there
\* is one
StatusUpdateResult(err, statusUpdateErr) ==
    IF statusUpdateErr # "" THEN statusUpdateErr ELSE err

\* what syncStatusOnly returns: the error it was given; the error of the
\* status update is only logged
StatusResult(err, statusUpdateErr) == err

\* return ctrl.syncStatusOnly(cfg, err): the condition of err is recorded
\* and err is what the pass returns; an UpdateStatus that fails, or keeps
\* conflicting until the retries are used up, writes nothing
syncReturnStatus(w) ==
    /\ w \in CtrWorkers
    /\ wk[w].pc = "status"
    /\ \E fail \in (IF faultsLeft > 0 THEN BOOLEAN ELSE {FALSE}) :
         LET st == syncStatusOnly(St0(w), wk[w].cfg, wk[w].err)
         IN IF fail
            THEN /\ wk' = [wk EXCEPT ![w] =
                            Return(wk[w], StatusResult(wk[w].err, "could not update status"))]
                 /\ faultsLeft' = faultsLeft - 1
                 /\ UNCHANGED <<queues, ctrcfgs, mcs>>
            ELSE /\ Commit(st)
                 /\ wk' = [wk EXCEPT ![w] = Return(After(wk[w], st), StatusResult(wk[w].err, ""))]
                 /\ UNCHANGED faultsLeft
    /\ UNCHANGED <<cm, cc, img, envLeft, clean>>

\* a cascadeDelete that goes on to the pop without deleting the MachineConfig
cascadeWithoutDelete(w) ==
    /\ w \in CtrWorkers
    /\ wk[w].pc = "cascadeDelete"
    /\ wk' = [wk EXCEPT ![w].pc = "pop"]
    /\ UNCHANGED <<queues, ctrcfgs, mcs, cm, cc, img, envLeft, faultsLeft, clean>>

\* cascadeDelete up to the pop: the MachineConfig named by the first
\* finalizer is deleted; not found counts as deleted, another error is
\* returned
cascadeDelete(w) ==
    /\ w \in CtrWorkers
    /\ wk[w].pc = "cascadeDelete"
    /\ \E fail \in (IF faultsLeft > 0 THEN BOOLEAN ELSE {FALSE}) :
         LET r == wk[w]
             mcName == r.cfg.finalizers[1]
             st == DeleteMC(St0(w), mcName)
         IN IF fail
            THEN /\ wk' = [wk EXCEPT ![w] = Return(r, "could not delete MachineConfig")]
                 /\ faultsLeft' = faultsLeft - 1
                 /\ UNCHANGED <<queues, ctrcfgs, mcs>>
            ELSE /\ Commit(st)
                 /\ wk' = [wk EXCEPT ![w].pc = "pop", ![w].writes = st.w]
                 /\ UNCHANGED faultsLeft
    /\ UNCHANGED <<cm, cc, img, envLeft, clean>>

\* cascadeDelete from the pop of the finalizer to its return: the patch gets
\* through, at once or after up to Steps - 1 attempts that the API server
\* answered with a conflict, or the error of the patch that fails is
\* returned (conflicts and failures are faults of the store)
cascadePop(w) ==
    /\ w \in CtrWorkers
    /\ wk[w].pc = "pop"
    /\ \E fail \in (IF faultsLeft > 0 THEN BOOLEAN ELSE {FALSE}),
          conflicts \in 0..(IF faultsLeft > 0 THEN updateBackoffSteps - 1 ELSE 0) :
         LET st == popFinalizerFromContainerRuntimeConfig(St0(w), wk[w].cfg, conflicts)
         IN IF fail
            THEN /\ conflicts = 0
                 /\ wk' = [wk EXCEPT ![w] = Return(wk[w], "could not patch ContainerRuntimeConfig")]
                 /\ faultsLeft' = faultsLeft - 1
                 /\ UNCHANGED <<queues, ctrcfgs, mcs>>
            ELSE /\ Commit(st)
                 /\ wk' = [wk EXCEPT ![w] = Return(After(wk[w], st), "")]
                 /\ faultsLeft' = IF conflicts > 0 THEN faultsLeft - 1 ELSE faultsLeft
    /\ UNCHANGED <<cm, cc, img, envLeft, clean>>

\* a handleErr that compares the retry count with <= maxRetries
handleErrOneMore(q, err, key) ==
    IF err = "" THEN QForget(q, key)
    ELSE IF QNumRequeues(q, key) <= maxRetries THEN QAddRateLimited(q, key)
    ELSE QAddAfter(QForget(q, key), key)

\* a handleErr that gives the key up whatever the result
handleErrForgets(q, err, key) == QForget(q, key)

\* a handleErr that gives the key up at the ceiling
handleErrDropsAtCeiling(q, err, key) ==
    IF err = "" THEN QForget(q, key)
    ELSE IF QNumRequeues(q, key) < maxRetries THEN QAddRateLimited(q, key)
    ELSE QForget(q, key)

\* handleErr: the queue after the result of a pass on key
handleErr(q, err, key) ==
    IF err = "" THEN QForget(q, key)
    ELSE IF QNumRequeues(q, key) < maxRetries THEN QAddRateLimited(q, key)
    ELSE QAddAfter(QForget(q, key), key)

\* the pass of key succeeded on a live object that is in the store as the
\* pass read it, with the success recorded as its last condition
PassClean(r) ==
    /\ r.err = ""
    /\ r.nstatus > 0
    /\ Len(ctrcfgs[r.key].conds) > 0
    /\ Last(ctrcfgs[r.key].conds).type = Success
    /\ r.cfg.exists /\ ~r.cfg.deleting
    /\ ctrcfgs[r.key].exists /\ ~ctrcfgs[r.key].deleting
    /\ ctrcfgs[r.key].uid = r.cfg.uid
    /\ ctrcfgs[r.key].gen = r.cfg.gen

\* processNextWorkItem after the sync handler returned: handleErr, then the
\* deferred queue.Done
workItemDone(w) ==
    /\ w \in CtrWorkers
    /\ wk[w].pc = "handle"
    /\ queues' = [queues EXCEPT !["ctr"] = QDone(handleErr(@, wk[w].err, wk[w].key), wk[w].key)]
    /\ wk' = [wk EXCEPT ![w] = IdleW]
    /\ clean' = IF wk[w].key \in Intents
                THEN [clean EXCEPT ![wk[w].key] = PassClean(wk[w])]
                ELSE clean
    /\ UNCHANGED <<ctrcfgs, mcs, cm, cc, img, envLeft, faultsLeft>>

\* the delaying queue: the delay of a waiting key is over and it is added
DelayExpire(q, k) ==
    /\ k \in queues[q].waiting
    /\ queues' = [queues EXCEPT ![q] = QAdd([@ EXCEPT !.waiting = @ \ {k}], k)]
    /\ UNCHANGED <<wk, ctrcfgs, mcs, cm, cc, img, envLeft, faultsLeft, clean>>

----------------------------------------------------------------------------
(* The image worker                                                        *)

\* the registry of the release image of a ClusterVersion (or of the
\* ControllerConfig): reference.ParseNamed fails on "bad"
ReleaseRegistry == "quay.io"

\* registry scopes a user can ask to block; the last one is no valid scope
RegistryScopes == {"quay.io", "other.io", "not/a scope"}

ValidScope(reg) == reg # "not/a scope"

errParsingReference == "error parsing reference of release image"

\* a validation that keeps the registry of the release image in the list
getRequestedBlockedRegistries(releaseImage, requested) ==
    IF releaseImage = "bad" THEN [regs |-> {}, err |-> errParsingReference]
    ELSE [regs |-> {r \in requested : ValidScope(r)},
          err |-> IF \A r \in requested : ValidScope(r) THEN "" ELSE "invalid entry"]

\* getValidBlockedRegistries: the requested blocked registries that are
\* well-formed, without the registry of the release image; a release image
\* that does not parse is errParsingReference, an entry that is dropped is
\* another error
getValidBlockedRegistries(releaseImage, requested) ==
    IF releaseImage = "bad" THEN [regs |-> {}, err |-> errParsingReference]
    ELSE [regs |-> {r \in requested : ValidScope(r) /\ r # ReleaseRegistry},
          err |-> IF \A r \in requested : ValidScope(r) /\ r # ReleaseRegistry
                  THEN "" ELSE "invalid entry"]

\* registriesConfigIgnition: the payload rendered from the registry sources
\* of the Image config and the blocked registries handed in
registriesConfigIgnition(policy, blockedRegs) ==
    {[policy |-> policy, blocked |-> blockedRegs]}

getManagedKeyReg(pool) == <<"reg", pool, 0>>

\* a pass that removes the MachineConfig when the Image config asks for
\* nothing
RegistriesMCOrNone(image) ==
    IF image.policy = "none" /\ image.blocked = {}
    THEN NoMC
    ELSE [exists |-> TRUE, version |-> Hash, owner |-> "Image/cluster",
          files |-> registriesConfigIgnition(image.policy,
                        getValidBlockedRegistries(image.cv, image.blocked).regs),
          gen |-> 0, touched |-> FALSE, ownerUid |-> 0]

\* the registries MachineConfig syncImageConfig writes for the Image config:
\* the rendered payload, the build version, the Image config as owner
RegistriesMC(image) ==
    [exists |-> TRUE, version |-> Hash, owner |-> "Image/cluster",
     files |-> registriesConfigIgnition(image.policy,
                   getValidBlockedRegistries(image.cv, image.blocked).regs),
     gen |-> 0, touched |-> FALSE, ownerUid |-> 0]

\* a bootstrap that stamps the version of the build
RunImageBootstrapStamped(releaseImage, image) ==
    [exists |-> TRUE, version |-> Hash, owner |-> "Image",
     files |-> IF image.exists
               THEN registriesConfigIgnition(image.policy,
                        getValidBlockedRegistries(releaseImage, image.blocked).regs)
               ELSE registriesConfigIgnition("none", {}),
     gen |-> 0, touched |-> FALSE, ownerUid |-> 0]

\* RunImageBootstrap: the MachineConfig generated for a pool from the
\* release image of the ControllerConfig and the Image config at hand, if
\* any; no version annotation, an owner reference without name and UID
RunImageBootstrap(releaseImage, image) ==
    [exists |-> TRUE, version |-> NoHash, owner |-> "Image",
     files |-> IF image.exists
               THEN registriesConfigIgnition(image.policy,
                        getValidBlockedRegistries(releaseImage, image.blocked).regs)
               ELSE registriesConfigIgnition("none", {}),
     gen |-> 0, touched |-> FALSE, ownerUid |-> 0]

\* a drift check that goes by the payload alone
SkipSamePayload(mc, rendered) ==
    mc.exists /\ mc.files = rendered.files

\* the drift check: the MachineConfig exists with the rendered payload and
\* the build version of this build
SkipRegistries(mc, rendered) ==
    mc.exists /\ mc.files = rendered.files /\ mc.version = Hash

\* a lookup for which an absent Image or ClusterVersion is an error
ImageConfigResultStrict(image, ccExists) ==
    IF ~image.exists \/ image.cv = "absent" THEN "not found"
    ELSE IF image.cv = "bad" THEN errParsingReference
    ELSE IF ~ccExists THEN "could not get ControllerConfig"
    ELSE ""

\* what syncImageConfig returns before the loop: nil when the Image or the
\* ClusterVersion is absent, errParsingReference for a release image that
\* does not parse, an error without the ControllerConfig
ImageConfigResult(image, ccExists) ==
    IF ~image.exists \/ image.cv = "absent" THEN ""
    ELSE IF image.cv = "bad" THEN errParsingReference
    ELSE IF ~ccExists THEN "could not get ControllerConfig"
    ELSE ""

\* the pass writes: both singletons are there and nothing failed
ImageConfigWrites(image, ccExists) ==
    image.exists /\ image.cv = "ok" /\ ccExists

\* processNextImgWorkItem, up to the call of the sync handler
processNextImgWorkItem(w) ==
    /\ w \in ImgWorkers
    /\ wk[w].pc = "idle"
    /\ queues["img"].queue # <<>>
    /\ queues' = [queues EXCEPT !["img"] = QGet(@)]
    /\ wk' = [wk EXCEPT ![w] = [IdleW EXCEPT !.pc = "imgSync",
                                             !.key = Head(queues["img"].queue)]]
    /\ UNCHANGED <<ctrcfgs, mcs, cm, cc, img, envLeft, faultsLeft, clean>>

\* syncImageConfig: for every built-in pool, in the order of the list, the
\* registries MachineConfig is created or updated unless the drift check
\* skips it; a Create or Update that fails (at pool number failAt) ends the
\* pass with its error (seen: what the Get of the first pool returned)
syncImageConfig(w) ==
    /\ w \in ImgWorkers
    /\ wk[w].pc = "imgSync"
    /\ LET rendered == RegistriesMC(img)
           stale == {k \in 1..Len(PoolList) :
                       ~SkipRegistries(mcs[getManagedKeyReg(PoolList[k])], rendered)}
       IN \E failAt \in (IF faultsLeft > 0 /\ ImageConfigWrites(img, cc)
                          THEN stale \cup {0} ELSE {0}) :
            LET written == {getManagedKeyReg(PoolList[k]) :
                               k \in {j \in stale : failAt = 0 \/ j < failAt}}
            IN /\ IF ImageConfigWrites(img, cc)
                  THEN /\ mcs' = [n \in MCNames |-> IF n \in written THEN rendered ELSE mcs[n]]
                       /\ wk' = [wk EXCEPT ![w].pc = "imgHandle",
                                    ![w].err = IF failAt = 0 THEN ""
                                               ELSE "could not Create/Update MachineConfig",
                                    ![w].second = clean[ImgKey],
                                    ![w].seen = mcs[getManagedKeyReg(PoolList[1])],
                                    ![w].writes = IF written = {} THEN {} ELSE {"mcWrite"}]
                  ELSE /\ mcs' = mcs
                       /\ wk' = [wk EXCEPT ![w].pc = "imgHandle",
                                           ![w].second = clean[ImgKey],
                                           ![w].err = ImageConfigResult(img, cc)]
               /\ faultsLeft' = IF failAt = 0 THEN faultsLeft ELSE faultsLeft - 1
               /\ clean' = [clean EXCEPT ![ImgKey] = ImageConfigWrites(img, cc) /\ failAt = 0]
    /\ UNCHANGED <<queues, ctrcfgs, cm, cc, img, envLeft>>

\* handleImgErr: the image queue after the result of a pass on key
handleImgErr(q, err, key) ==
    IF err = "" THEN QForget(q, key)
    ELSE IF QNumRequeues(q, key) < maxRetries THEN QAddRateLimited(q, key)
    ELSE QAddAfter(QForget(q, key), key)

\* processNextImgWorkItem after the sync handler returned
imgWorkItemDone(w) ==
    /\ w \in ImgWorkers
    /\ wk[w].pc = "imgHandle"
    /\ queues' = [queues EXCEPT !["img"] = QDone(handleImgErr(@, wk[w].err, wk[w].key), wk[w].key)]
    /\ wk' = [wk EXCEPT ![w] = IdleW]
    /\ UNCHANGED <<ctrcfgs, mcs, cm, cc, img, envLeft, faultsLeft, clean>>

\* imageConfAdded, imageConfUpdated, imageConfDeleted (and the icspConf
\* handlers): each adds the one key
imageConfAdded(q) == QAdd(q, ImgKey)

imageConfUpdated(q) == QAdd(q, ImgKey)

imageConfDeleted(q) == QAdd(q, ImgKey)

NoImage == [exists |-> FALSE, policy |-> "none", cv |-> "absent", blocked |-> {}]

\* the Image config is created, edited or deleted
ImageChange(exists, policy) ==
    /\ envLeft > 0
    /\ [img EXCEPT !.exists = exists, !.policy = policy] # img
    /\ exists \/ policy = "none"
    /\ img' = [img EXCEPT !.exists = exists, !.policy = policy,
                          !.blocked = IF exists THEN @ ELSE {}]
    /\ queues' = [queues EXCEPT !["img"] =
                    IF ~img.exists THEN imageConfAdded(@)
                    ELSE IF exists THEN imageConfUpdated(@)
                    ELSE imageConfDeleted(@)]
    /\ envLeft' = envLeft - 1
    /\ clean' = [clean EXCEPT ![ImgKey] = FALSE]
    /\ UNCHANGED <<wk, ctrcfgs, mcs, cm, cc, faultsLeft>>

\* a resync of the Image informer: an update event for the unchanged object
ImageResync ==
    /\ img.exists
    /\ queues' = [queues EXCEPT !["img"] = imageConfUpdated(@)]
    /\ UNCHANGED <<wk, ctrcfgs, mcs, cm, cc, img, envLeft, faultsLeft, clean>>

\* the blocked registries of the Image config are edited
BlockedChange(blocked) ==
    /\ envLeft > 0
    /\ img.exists /\ blocked # img.blocked
    /\ img' = [img EXCEPT !.blocked = blocked]
    /\ queues' = [queues EXCEPT !["img"] = imageConfUpdated(@)]
    /\ envLeft' = envLeft - 1
    /\ clean' = [clean EXCEPT ![ImgKey] = FALSE]
    /\ UNCHANGED <<wk, ctrcfgs, mcs, cm, cc, faultsLeft>>

\* the ClusterVersion appears, goes or names another release image; the
\* controller has no handler on its informer
ClusterVersionChange(cv) ==
    /\ envLeft > 0
    /\ cv # img.cv
    /\ img' = [img EXCEPT !.cv = cv]
    /\ envLeft' = envLeft - 1
    /\ clean' = [clean EXCEPT ![ImgKey] = FALSE]
    /\ UNCHANGED <<queues, wk, ctrcfgs, mcs, cm, cc, faultsLeft>>

\* the operator creates the ControllerConfig
CreateControllerConfig ==
    /\ ~cc
    /\ cc' = TRUE
    /\ clean' = [clean EXCEPT ![ImgKey] = FALSE]
    /\ UNCHANGED <<queues, wk, ctrcfgs, mcs, cm, img, envLeft, faultsLeft>>

----------------------------------------------------------------------------
(* The environment: users create, edit and delete ContainerRuntimeConfigs  *)

\* a user creates the object; the informer's add event enqueues it
CreateIntent(i, spec) ==
    /\ envLeft > 0
    /\ ~ctrcfgs[i].exists
    /\ LET new == [NewCfg(i, spec, FALSE) EXCEPT !.uid = envLeft]
       IN /\ ctrcfgs' = [ctrcfgs EXCEPT ![i] = new]
          /\ queues' = [queues EXCEPT !["ctr"] = addContainerRuntimeConfig(@, new)]
    /\ envLeft' = envLeft - 1
    /\ clean' = [clean EXCEPT ![i] = FALSE]
    /\ UNCHANGED <<wk, mcs, cm, cc, img, faultsLeft>>

\* a user edits the spec: the generation grows, the update event follows
UpdateIntent(i, spec) ==
    /\ envLeft > 0
    /\ ctrcfgs[i].exists /\ ~ctrcfgs[i].deleting
    /\ spec # ctrcfgs[i].spec
    /\ LET new == [ctrcfgs[i] EXCEPT !.spec = spec, !.gen = @ + 1]
       IN /\ ctrcfgs' = [ctrcfgs EXCEPT ![i] = new]
          /\ queues' = [queues EXCEPT !["ctr"] = updateContainerRuntimeConfig(@, ctrcfgs[i], new)]
    /\ envLeft' = envLeft - 1
    /\ clean' = [clean EXCEPT ![i] = FALSE]
    /\ UNCHANGED <<wk, mcs, cm, cc, img, faultsLeft>>

\* a user deletes the object: with finalizers it gets its deletion timestamp
\* (an update event), without any it is removed (a delete event, whose
\* cascadeDelete finds no finalizer)
DeleteIntent(i) ==
    /\ envLeft > 0
    /\ ctrcfgs[i].exists /\ ~ctrcfgs[i].deleting
    /\ LET new == [ctrcfgs[i] EXCEPT !.deleting = TRUE]
       IN IF Removed(new)
          THEN /\ ctrcfgs' = [ctrcfgs EXCEPT ![i] = NoCfg]
               /\ UNCHANGED queues
          ELSE /\ ctrcfgs' = [ctrcfgs EXCEPT ![i] = new]
               /\ queues' = [queues EXCEPT !["ctr"] = updateContainerRuntimeConfig(@, ctrcfgs[i], new)]
    /\ envLeft' = envLeft - 1
    /\ clean' = [clean EXCEPT ![i] = FALSE]
    /\ UNCHANGED <<wk, mcs, cm, cc, img, faultsLeft>>

----------------------------------------------------------------------------
(* Initial states: the store as an earlier run of the controller (of this  *)
(* build or of the one before it) can have left it, and the queues as New  *)
(* and the informers' first add events fill them.  The marker ConfigMap    *)
(* of the seccomp MachineConfigs is there; SpecSentinel starts without it. *)

\* the specs a pass generates MachineConfigs for
Syncable(spec) ==
    /\ validateUserContainerRuntimeConfig(spec)
    /\ \E p \in Pools : PoolSelected(spec.sel, p)

\* the name of the MachineConfig of the only ContainerRuntimeConfig
SoleKey(p) == <<"ctr", p, 0>>

\* an object an earlier run has synced successfully
SyncedCfg(i, spec) ==
    LET pools == SelectSeq(PoolList, LAMBDA p : PoolSelected(spec.sel, p))
    IN [NewCfg(i, spec, FALSE) EXCEPT
          !.finalizers = [n \in 1..Len(pools) |-> SoleKey(pools[n])],
          !.obsGen = 1,
          !.conds = <<wrapErrorWithCondition("")>>]

\* the MachineConfigs of that run, written by the build of version ver
SyncedMCs(i, spec, ver, seccomp) ==
    [n \in MCNames |->
        IF n[1] = "ctr" /\ n[3] = 0 /\ PoolSelected(spec.sel, n[2])
        THEN [exists |-> TRUE, version |-> ver, owner |-> i,
              files |-> GeneratedFiles(spec, TRUE), gen |-> 1, touched |-> FALSE, ownerUid |-> 0]
        ELSE IF n[1] = "seccomp" /\ seccomp THEN SeccompMC
        ELSE NoMC]

NoMCs(seccomp) == [n \in MCNames |-> IF n[1] = "seccomp" /\ seccomp THEN SeccompMC ELSE NoMC]

\* a New that does not add the sentinel
StartQueueOfObjects(cfgs) ==
    LET present == {i \in Intents : cfgs[i].exists}
    IN IF present = {} THEN EmptyQueue("ctr")
       ELSE addContainerRuntimeConfig(EmptyQueue("ctr"), cfgs[CHOOSE i \in present : TRUE])

\* the queue of New: the sentinel, then the keys of the objects in the store
StartQueue(cfgs) ==
    LET present == {i \in Intents : cfgs[i].exists}
        sentinel == QAdd(EmptyQueue("ctr"), SentinelKey)
    IN IF present = {} THEN sentinel
       ELSE addContainerRuntimeConfig(sentinel, cfgs[CHOOSE i \in present : TRUE])

InitCommon ==
    /\ wk = [w \in Workers |-> IdleW]
    /\ envLeft = MaxEnv
    /\ faultsLeft = MaxFaults

Init ==
    /\ InitCommon
    /\ img = NoImage
    /\ cm = TRUE
    /\ \/ /\ ctrcfgs = [i \in Intents |-> NoCfg]
          /\ mcs = NoMCs(cm)
          /\ cc = TRUE
          /\ clean = [i \in Intents \cup {ImgKey} |-> FALSE]
       \/ \E spec \in Specs :
             /\ ctrcfgs = [i \in Intents |-> NewCfg(i, spec, FALSE)]
             /\ mcs = NoMCs(cm)
             /\ cc \in BOOLEAN
             /\ clean = [i \in Intents \cup {ImgKey} |-> FALSE]
       \/ \E spec \in {s \in Specs : Syncable(s)}, ver \in {OldHash, Hash} :
             /\ ctrcfgs = [i \in Intents |-> SyncedCfg(i, spec)]
             /\ mcs = SyncedMCs(CHOOSE i \in Intents : TRUE, spec, ver, cm)
             /\ cc = TRUE
             /\ clean = [i \in Intents \cup {ImgKey} |-> i \in Intents /\ ver = Hash]
    /\ queues = [q \in QIds |-> IF q = "ctr" THEN StartQueue(ctrcfgs) ELSE EmptyQueue(q)]

\* the specs users create objects with and edit them to
EditedSpecs == {SpecPids, SpecOverlay, SpecBoth}

\* the workers of Spec: one runtime-config worker runs the passes
LifecycleWorkers == {"w1"}

Next ==
    \/ \E w \in LifecycleWorkers :
          \/ processNextWorkItem(w)
          \/ createSeccompUseDefaultMC(w)
          \/ syncFetch(w)
          \/ syncPoolGet(w)
          \/ syncPoolApply(w)
          \/ cleanUpDuplicatedMC(w)
          \/ syncReturnStatus(w)
          \/ cascadeDelete(w)
          \/ cascadePop(w)
          \/ workItemDone(w)
    \/ \E k \in Keys("ctr") : DelayExpire("ctr", k)
    \/ \E i \in Intents, spec \in EditedSpecs : CreateIntent(i, spec)
    \/ \E i \in Intents, spec \in EditedSpecs : UpdateIntent(i, spec)
    \/ \E i \in Intents : DeleteIntent(i)
    \/ CreateControllerConfig

\* The life of a ContainerRuntimeConfig under one runtime-config worker
Spec == Init /\ [][Next]_vars

----------------------------------------------------------------------------
(* The dispatch of both queues: every worker of Run, passes that succeed   *)
(* and passes that keep failing, events arriving at any time               *)

DispatchSpecs == {SpecPids, SpecBadLevel}

\* the release image of the ClusterVersion parses or does not
ReleaseImages == {"ok", "bad"}

InitDispatch ==
    /\ wk = [w \in Workers |-> IdleW]
    /\ envLeft = MaxEnv
    /\ faultsLeft = 0
    /\ clean = [i \in Intents \cup {ImgKey} |-> FALSE]
    /\ cc = TRUE
    /\ \E cv \in ReleaseImages : img = [NoImage EXCEPT !.cv = cv]
    /\ cm = TRUE
    /\ mcs = NoMCs(TRUE)
    /\ \/ ctrcfgs = [i \in Intents |-> NoCfg]
       \/ \E spec \in DispatchSpecs : ctrcfgs = [i \in Intents |-> NewCfg(i, spec, FALSE)]
    /\ queues = [q \in QIds |->
                    IF q = "ctr" THEN StartQueue(ctrcfgs)
                    ELSE IF img.exists THEN imageConfAdded(EmptyQueue(q))
                    ELSE EmptyQueue(q)]

NextDispatch ==
    \/ \E w \in CtrWorkers :
          \/ processNextWorkItem(w)
          \/ createSeccompUseDefaultMC(w)
          \/ syncFetch(w)
          \/ syncPoolGet(w)
          \/ syncPoolApply(w)
          \/ cleanUpDuplicatedMC(w)
          \/ syncReturnStatus(w)
          \/ cascadeDelete(w)
          \/ cascadePop(w)
          \/ workItemDone(w)
    \/ \E w \in ImgWorkers :
          \/ processNextImgWorkItem(w)
          \/ syncImageConfig(w)
          \/ imgWorkItemDone(w)
    \/ \E q \in QIds : \E k \in Keys(q) : DelayExpire(q, k)
    \/ \E i \in Intents, spec \in DispatchSpecs : CreateIntent(i, spec)
    \/ \E i \in Intents, spec \in DispatchSpecs : UpdateIntent(i, spec)
    \/ \E i \in Intents : DeleteIntent(i)
    \/ \E exists \in BOOLEAN : ImageChange(exists, "none")

SpecDispatch == InitDispatch /\ [][NextDispatch]_vars

\* the steps of one worker goroutine
WorkerStep(w) ==
    \/ processNextWorkItem(w)
    \/ createSeccompUseDefaultMC(w)
    \/ syncFetch(w)
    \/ syncPoolGet(w)
    \/ syncPoolApply(w)
    \/ cleanUpDuplicatedMC(w)
    \/ syncReturnStatus(w)
    \/ cascadeDelete(w)
    \/ cascadePop(w)
    \/ workItemDone(w)
    \/ processNextImgWorkItem(w)
    \/ syncImageConfig(w)
    \/ imgWorkItemDone(w)

\* The dispatch with the scheduling of Run: every worker goroutine keeps
\* running (wait.Until, no stop signal), every delay of the delaying queue
\* runs out
FairDispatch ==
    /\ SpecDispatch
    /\ \A w \in Workers : WF_vars(WorkerStep(w))
    /\ \A q \in QIds : \A k \in Keys(q) : WF_vars(DelayExpire(q, k))

----------------------------------------------------------------------------
(* The image worker on its own: the Image config, the ClusterVersion and   *)
(* the ControllerConfig come and go; the registries MachineConfigs are as  *)
(* the bootstrap or an earlier run left them                               *)

ImagePolicies == {"none", "p1"}

BlockedRequests == {{}, {"quay.io"}, {"other.io", "quay.io"}, {"other.io", "not/a scope"}}

ClusterVersions == {"absent", "ok", "bad"}

\* the registries MachineConfig of a pool before the run: none, the one of
\* the bootstrap (with or without the Image config at hand), or the one a
\* run of this build or of the one before it wrote for the Image config
EarlierRegistriesMCs(image) ==
    {NoMC, RunImageBootstrap("ok", image), RunImageBootstrap("ok", NoImage)}
    \cup {[RegistriesMC([image EXCEPT !.cv = "ok"]) EXCEPT !.version = ver] :
              ver \in {OldHash, Hash}}

InitImage ==
    /\ InitCommon
    /\ cm = TRUE
    /\ cc \in BOOLEAN
    /\ \E cv \in ClusterVersions :
          \/ img = [NoImage EXCEPT !.cv = cv]
          \/ \E blocked \in BlockedRequests :
                img = [exists |-> TRUE, policy |-> "none", cv |-> cv, blocked |-> blocked]
    /\ ctrcfgs = [i \in Intents |-> SyncedCfg(i, SpecPids)]
    /\ \E reg \in EarlierRegistriesMCs(img) :
          mcs = [n \in MCNames |->
                   IF n[1] = "reg" THEN reg
                   ELSE SyncedMCs(CHOOSE i \in Intents : TRUE, SpecPids, Hash, TRUE)[n]]
    /\ clean = [i \in Intents \cup {ImgKey} |-> FALSE]
    /\ queues = [q \in QIds |-> IF q = "ctr" THEN StartQueue(ctrcfgs)
                                ELSE imageConfAdded(EmptyQueue(q))]

NextImage ==
    \/ \E w \in ImgWorkers :
          \/ processNextImgWorkItem(w)
          \/ syncImageConfig(w)
          \/ imgWorkItemDone(w)
    \/ DelayExpire("img", ImgKey)
    \/ \E exists \in BOOLEAN, policy \in ImagePolicies : ImageChange(exists, policy)
    \/ ImageResync
    \/ \E blocked \in BlockedRequests : BlockedChange(blocked)
    \/ \E cv \in ClusterVersions : ClusterVersionChange(cv)
    \/ CreateControllerConfig

SpecImage == InitImage /\ [][NextImage]_vars

----------------------------------------------------------------------------
(* The start of the controller on a cluster without the marker ConfigMap,  *)
(* or with it: some of the seccomp MachineConfigs can be there already     *)

SentinelSpecs == {SpecPids, SpecOverlay}

InitSentinel ==
    /\ InitCommon
    /\ img = NoImage
    /\ cc = TRUE
    /\ cm \in BOOLEAN
    /\ clean = [i \in Intents \cup {ImgKey} |-> FALSE]
    /\ \E there \in SUBSET Pools :
          /\ cm => there = Pools
          /\ \/ /\ ctrcfgs = [i \in Intents |-> NoCfg]
                /\ mcs = [n \in MCNames |->
                             IF n[1] = "seccomp" /\ n[2] \in there THEN SeccompMC ELSE NoMC]
             \/ /\ ctrcfgs = [i \in Intents |-> SyncedCfg(i, SpecPids)]
                /\ mcs = [n \in MCNames |->
                             IF n[1] = "seccomp"
                             THEN (IF n[2] \in there THEN SeccompMC ELSE NoMC)
                             ELSE SyncedMCs(CHOOSE i \in Intents : TRUE, SpecPids, OldHash, FALSE)[n]]
    /\ queues = [q \in QIds |-> IF q = "ctr" THEN StartQueue(ctrcfgs) ELSE EmptyQueue(q)]

NextSentinel ==
    \/ \E w \in LifecycleWorkers :
          \/ processNextWorkItem(w)
          \/ createSeccompUseDefaultMC(w)
          \/ syncFetch(w)
          \/ syncPoolGet(w)
          \/ syncPoolApply(w)
          \/ cleanUpDuplicatedMC(w)
          \/ syncReturnStatus(w)
          \/ cascadeDelete(w)
          \/ cascadePop(w)
          \/ workItemDone(w)
    \/ \E k \in Keys("ctr") : DelayExpire("ctr", k)
    \/ \E i \in Intents, spec \in SentinelSpecs : CreateIntent(i, spec)
    \/ \E i \in Intents, spec \in SentinelSpecs : UpdateIntent(i, spec)
    \/ \E i \in Intents : DeleteIntent(i)

SpecSentinel == InitSentinel /\ [][NextSentinel]_vars

\* the start with the scheduling of Run: the worker goroutine keeps running,
\* every delay of the delaying queue runs out
FairSentinel ==
    /\ SpecSentinel
    /\ \A w \in LifecycleWorkers : WF_vars(WorkerStep(w))
    /\ \A k \in Keys("ctr") : WF_vars(DelayExpire("ctr", k))

----------------------------------------------------------------------------
(* createSeccompUseDefaultMC call by call: two workers, on the sentinel    *)
(* key and on the key of an object, run it against the same pools          *)

\* a loop that tries to create also the MachineConfigs that are there
SeccompSkipNever(mc) == FALSE

\* "continue to the next MC if this already exists"
SeccompSkip(mc) == mc.exists

SeccompFailed == "failed to create the crio-seccomp-use-default MC"

\* the Get of the marker ConfigMap: with it the step is over, without it
\* the loop over the built-in pools starts
seccompGetConfigMap(w) ==
    /\ w \in CtrWorkers
    /\ wk[w].pc = "seccomp"
    /\ wk' = [wk EXCEPT ![w] =
                IF cm
                THEN [@ EXCEPT !.pc = IF wk[w].key = SentinelKey THEN "handle" ELSE "fetch"]
                ELSE [@ EXCEPT !.pc = "seccompGet",
                               !.pools = SelectSeq(PoolList,
                                   LAMBDA p : builtInLabelKey \in PoolLabels(p))]]
    /\ UNCHANGED <<queues, ctrcfgs, mcs, cm, cc, img, envLeft, faultsLeft, clean>>

\* the Get of the seccomp MachineConfig of the next pool; after the last
\* pool the ConfigMap is to be created
seccompGetMC(w) ==
    /\ w \in CtrWorkers
    /\ wk[w].pc = "seccompGet"
    /\ wk' = [wk EXCEPT ![w] =
                IF wk[w].pools = <<>> THEN [@ EXCEPT !.pc = "seccompMark"]
                ELSE IF SeccompSkip(mcs[<<"seccomp", Head(wk[w].pools), 0>>])
                     THEN [@ EXCEPT !.pools = Tail(@)]
                     ELSE [@ EXCEPT !.pc = "seccompCreate"]]
    /\ UNCHANGED <<queues, ctrcfgs, mcs, cm, cc, img, envLeft, faultsLeft, clean>>

\* the Create of the seccomp MachineConfig under RetryOnConflict: a
\* MachineConfig of that name in the store is an error (AlreadyExists is no
\* conflict), which ends the pass
seccompCreateMC(w) ==
    /\ w \in CtrWorkers
    /\ wk[w].pc = "seccompCreate"
    /\ LET name == <<"seccomp", Head(wk[w].pools), 0>>
       IN IF mcs[name].exists
          THEN /\ wk' = [wk EXCEPT ![w] = Return(@, SeccompFailed)]
               /\ UNCHANGED mcs
          ELSE /\ mcs' = [mcs EXCEPT ![name] = SeccompMC]
               /\ wk' = [wk EXCEPT ![w] = [@ EXCEPT !.pc = "seccompGet", !.pools = Tail(@),
                                                    !.writes = @ \cup {"seccompCreate"}]]
    /\ UNCHANGED <<queues, ctrcfgs, cm, cc, img, envLeft, faultsLeft, clean>>

\* the Create of the marker ConfigMap; one in the store is an error
seccompCreateConfigMap(w) ==
    /\ w \in CtrWorkers
    /\ wk[w].pc = "seccompMark"
    /\ IF cm
       THEN /\ wk' = [wk EXCEPT ![w] = Return(@, SeccompFailed)]
            /\ UNCHANGED cm
       ELSE /\ cm' = TRUE
            /\ wk' = [wk EXCEPT ![w] =
                        [@ EXCEPT !.pc = IF wk[w].key = SentinelKey THEN "handle" ELSE "fetch",
                                  !.writes = @ \cup {"cmCreate"}]]
    /\ UNCHANGED <<queues, ctrcfgs, mcs, cc, img, envLeft, faultsLeft, clean>>

InitRace ==
    /\ wk = [w \in Workers |-> IdleW]
    /\ envLeft = 0
    /\ faultsLeft = 0
    /\ img = NoImage
    /\ cc = TRUE
    /\ cm = FALSE
    /\ clean = [i \in Intents \cup {ImgKey} |-> FALSE]
    /\ ctrcfgs = [i \in Intents |-> NewCfg(i, SpecPids, FALSE)]
    /\ \E there \in SUBSET Pools :
          mcs = [n \in MCNames |->
                   IF n[1] = "seccomp" /\ n[2] \in there THEN SeccompMC ELSE NoMC]
    /\ queues = [q \in QIds |-> IF q = "ctr" THEN StartQueue(ctrcfgs) ELSE EmptyQueue(q)]

\* the steps of a runtime-config worker, createSeccompUseDefaultMC call by
\* call
RaceStep(w) ==
    \/ processNextWorkItem(w)
    \/ seccompGetConfigMap(w)
    \/ seccompGetMC(w)
    \/ seccompCreateMC(w)
    \/ seccompCreateConfigMap(w)
    \/ syncFetch(w)
    \/ syncPoolGet(w)
    \/ syncPoolApply(w)
    \/ cleanUpDuplicatedMC(w)
    \/ syncReturnStatus(w)
    \/ workItemDone(w)

NextRace ==
    \/ \E w \in CtrWorkers : RaceStep(w)
    \/ \E k \in Keys("ctr") : DelayExpire("ctr", k)

SpecRace == InitRace /\ [][NextRace]_vars

\* the race with the scheduling of Run
FairRace ==
    /\ SpecRace
    /\ \A w \in CtrWorkers : WF_vars(RaceStep(w))
    /\ \A k \in Keys("ctr") : WF_vars(DelayExpire("ctr", k))

----------------------------------------------------------------------------
(* one worker and another client of the API server that updates a          *)
(* generated MachineConfig while a pass is between its Get and its Update   *)

\* another client updates the MachineConfig n (a label, an annotation of
\* its own): the API server gives the object a new resourceVersion
ModifyMC(n) ==
    /\ envLeft > 0
    /\ n \in MCNames /\ n[1] = "ctr"
    /\ mcs[n].exists /\ ~mcs[n].touched
    /\ mcs' = [mcs EXCEPT ![n].touched = TRUE]
    /\ envLeft' = envLeft - 1
    /\ UNCHANGED <<queues, wk, ctrcfgs, cm, cc, img, faultsLeft, clean>>

ConflictSpecs == {SpecPids, SpecOverlay, SpecBoth}

\* the controller of a new build starts on a synced object
InitConflict ==
    /\ wk = [w \in Workers |-> IdleW]
    /\ envLeft = MaxEnv
    /\ faultsLeft = 0
    /\ img = NoImage
    /\ cc = TRUE
    /\ cm = TRUE
    /\ clean = [i \in Intents \cup {ImgKey} |-> FALSE]
    /\ \E spec \in ConflictSpecs :
          /\ ctrcfgs = [i \in Intents |-> SyncedCfg(i, spec)]
          /\ mcs = SyncedMCs(CHOOSE i \in Intents : TRUE, spec, OldHash, cm)
    /\ queues = [q \in QIds |-> IF q = "ctr" THEN StartQueue(ctrcfgs) ELSE EmptyQueue(q)]

NextConflict ==
    \/ \E w \in LifecycleWorkers :
          \/ processNextWorkItem(w)
          \/ createSeccompUseDefaultMC(w)
          \/ syncFetch(w)
          \/ syncPoolGet(w)
          \/ syncPoolApply(w)
          \/ cleanUpDuplicatedMC(w)
          \/ syncReturnStatus(w)
          \/ workItemDone(w)
    \/ \E k \in Keys("ctr") : DelayExpire("ctr", k)
    \/ \E n \in MCNames : ModifyMC(n)

SpecConflict == InitConflict /\ [][NextConflict]_vars

----------------------------------------------------------------------------
(* the cascade: the controller starts on an object that has its deletion   *)
(* timestamp set and names the MachineConfigs of its pools as finalizers    *)

\* the lists of finalizers the passes can have attached to an object that
\* selects two pools or more: MachineConfig names, each once
FinalizerLists ==
    {fins \in UNION {[1..n -> {m \in MCNames : m[1] = "ctr"}] : n \in 2..MaxFinalizers} :
        \A j, k \in 1..Len(fins) : fins[j] = fins[k] => j = k}

InitCascade ==
    /\ InitCommon
    /\ img = NoImage
    /\ cc = TRUE
    /\ cm = TRUE
    /\ clean = [i \in Intents \cup {ImgKey} |-> FALSE]
    /\ \E fins \in FinalizerLists :
          /\ ctrcfgs = [i \in Intents |->
                          [SyncedCfg(i, SpecBoth) EXCEPT !.finalizers = fins, !.deleting = TRUE]]
          /\ mcs = [n \in MCNames |->
                      IF \E k \in 1..Len(fins) : fins[k] = n
                      THEN RenderedMC(SyncedCfg(CHOOSE i \in Intents : TRUE, SpecBoth), TRUE)
                      ELSE IF n[1] = "seccomp" THEN SeccompMC ELSE NoMC]
    /\ queues = [q \in QIds |-> IF q = "ctr" THEN StartQueue(ctrcfgs) ELSE EmptyQueue(q)]

\* the steps of the worker on an object that is being deleted
CascadeStep(w) ==
    \/ processNextWorkItem(w)
    \/ createSeccompUseDefaultMC(w)
    \/ syncFetch(w)
    \/ cascadeDelete(w)
    \/ cascadePop(w)
    \/ workItemDone(w)

NextCascade ==
    \/ \E w \in LifecycleWorkers : CascadeStep(w)
    \/ \E k \in Keys("ctr") : DelayExpire("ctr", k)

SpecCascade == InitCascade /\ [][NextCascade]_vars

\* the cascade with the scheduling of Run
FairCascade ==
    /\ SpecCascade
    /\ \A w \in LifecycleWorkers : WF_vars(CascadeStep(w))
    /\ \A k \in Keys("ctr") : WF_vars(DelayExpire("ctr", k))

----------------------------------------------------------------------------
(* addFinalizerToContainerRuntimeConfig call by call, with another writer  *)
(* of the object                                                            *)

\* another writer (a user, another controller) changes the live object: it
\* sets an annotation, or appends a finalizer of its own, a name that is not
\* in the list
AnotherWriter(i) ==
    /\ envLeft > 0
    /\ ctrcfgs[i].exists /\ ~ctrcfgs[i].deleting
    /\ \E new \in {[ctrcfgs[i] EXCEPT !.notes = TRUE]}
                 \cup {[ctrcfgs[i] EXCEPT !.finalizers = Append(@, t)] :
                          t \in {m \in MCNames : m[1] = "ctr" /\ m[3] # 0 /\ ~mcs[m].exists
                                     /\ \A k \in 1..Len(ctrcfgs[i].finalizers) :
                                           ctrcfgs[i].finalizers[k] # m}} :
          /\ new # ctrcfgs[i]
          /\ ctrcfgs' = [ctrcfgs EXCEPT ![i] = new]
          /\ queues' = [queues EXCEPT !["ctr"] = updateContainerRuntimeConfig(@, ctrcfgs[i], new)]
    /\ envLeft' = envLeft - 1
    /\ UNCHANGED <<wk, mcs, cm, cc, img, faultsLeft, clean>>

\* one iteration of the loop over mcpPools up to the Create or Update of the
\* MachineConfig, for a spec without overlay size and a name without suffix
syncPoolWrite(w) ==
    /\ w \in CtrWorkers
    /\ wk[w].pc = "poolApply"
    /\ wk[w].cfg.spec.overlay = 0 /\ wk[w].name[3] = 0
    /\ LET r == wk[w]
           st == PutMC(St0(w), r.name, RenderedMC(r.cfg, TRUE),
                       IF r.seen.exists THEN "mcUpdate" ELSE "mcCreate")
       IN IF WriteFails(r.seen, mcs[r.name])
          THEN /\ wk' = [wk EXCEPT ![w] = ReturnStatus(r, "could not Create/Update MachineConfig")]
               /\ UNCHANGED <<queues, ctrcfgs, mcs>>
          ELSE /\ Commit(st)
               /\ wk' = [wk EXCEPT ![w] = [After(r, st) EXCEPT !.pc = "attachGet"]]
    /\ UNCHANGED <<cm, cc, img, envLeft, faultsLeft, clean>>

\* the closure of addFinalizerToContainerRuntimeConfig up to the patch: the
\* Get from the lister; not found ends the call with nil
attachGet(w) ==
    /\ w \in CtrWorkers
    /\ wk[w].pc = "attachGet"
    /\ LET newcfg == ctrcfgs[wk[w].key]
       IN wk' = [wk EXCEPT ![w] =
                   IF ~newcfg.exists THEN NextPool(@)
                   ELSE [@ EXCEPT !.pc = "attachPatch", !.fins = newcfg.finalizers]]
    /\ UNCHANGED <<queues, ctrcfgs, mcs, cm, cc, img, envLeft, faultsLeft, clean>>

\* the merge patch from the object read to its copy with the name appended
\* unless InSlice: the two differ at most in metadata.finalizers, which the
\* patch then holds as a whole; the API server puts it on the object it has
attachPatch(w) ==
    /\ w \in CtrWorkers
    /\ wk[w].pc = "attachPatch"
    /\ LET r == wk[w]
           cur == ctrcfgs[r.key]
           InSlice == \E n \in 1..Len(r.fins) : r.fins[n] = r.name
           new == [cur EXCEPT !.finalizers = Append(r.fins, r.name)]
           st == IF InSlice THEN St0(w) ELSE WriteCfg(St0(w), new, "patch", FALSE)
       IN IF ~cur.exists
          THEN /\ wk' = [wk EXCEPT ![w] =
                           ReturnStatus([r EXCEPT !.fins = <<>>],
                                        "could not add finalizers to ContainerRuntimeConfig")]
               /\ UNCHANGED <<queues, ctrcfgs, mcs>>
          ELSE /\ Commit(st)
               /\ wk' = [wk EXCEPT ![w] = NextPool([After(r, st) EXCEPT !.fins = <<>>])]
    /\ UNCHANGED <<cm, cc, img, envLeft, faultsLeft, clean>>

InitAttach ==
    /\ wk = [w \in Workers |-> IdleW]
    /\ envLeft = MaxEnv
    /\ faultsLeft = 0
    /\ img = NoImage
    /\ cc = TRUE
    /\ cm = TRUE
    /\ clean = [i \in Intents \cup {ImgKey} |-> FALSE]
    /\ \/ /\ ctrcfgs = [i \in Intents |-> NewCfg(i, SpecPids, FALSE)]
          /\ mcs = NoMCs(cm)
       \/ \E spec \in {SpecPids, SpecBadLevel} \cap {s \in Specs : Syncable(s)} :
             /\ ctrcfgs = [i \in Intents |-> SyncedCfg(i, spec)]
             /\ mcs = SyncedMCs(CHOOSE i \in Intents : TRUE, spec, OldHash, cm)
    /\ queues = [q \in QIds |-> IF q = "ctr" THEN StartQueue(ctrcfgs) ELSE EmptyQueue(q)]

NextAttach ==
    \/ \E w \in LifecycleWorkers :
          \/ processNextWorkItem(w)
          \/ createSeccompUseDefaultMC(w)
          \/ syncFetch(w)
          \/ syncPoolGet(w)
          \/ syncPoolWrite(w)
          \/ attachGet(w)
          \/ attachPatch(w)
          \/ cleanUpDuplicatedMC(w)
          \/ syncReturnStatus(w)
          \/ workItemDone(w)
    \/ \E i \in Intents : AnotherWriter(i)

SpecAttach == InitAttach /\ [][NextAttach]_vars

----------------------------------------------------------------------------
(* cleanUpDuplicatedMC call by call, while a worker on the key of another  *)
(* ContainerRuntimeConfig updates the MachineConfig of that object          *)

\* the MachineConfig of the other object, "b", on the master pool; the model
\* follows this MachineConfig, not the passes of "b"
OtherMC == <<"ctr", "master", 1>>

\* the pass of another worker on the other object, at its Update of the
\* MachineConfig it generated: the annotation becomes the running version
OtherPassUpdate ==
    /\ mcs[OtherMC].exists
    /\ mcs[OtherMC].version # Hash
    /\ mcs' = [mcs EXCEPT ![OtherMC].version = Hash]
    /\ UNCHANGED <<queues, wk, ctrcfgs, cm, cc, img, envLeft, faultsLeft, clean>>

\* MachineConfigs().List and the two tests of the loop on its items
cleanUpList(w) ==
    /\ w \in CtrWorkers
    /\ wk[w].pc = "cleanup"
    /\ wk' = [wk EXCEPT ![w].pc = "cleanupDelete", ![w].listed = DuplicatedMCs(mcs)]
    /\ UNCHANGED <<queues, ctrcfgs, mcs, cm, cc, img, envLeft, faultsLeft, clean>>

\* the Delete of one listed item by its name; an error of it (the
\* MachineConfig is gone) is returned; after the last item nil is returned
cleanUpDelete(w) ==
    /\ w \in CtrWorkers
    /\ wk[w].pc = "cleanupDelete"
    /\ IF wk[w].listed = {}
       THEN /\ wk' = [wk EXCEPT ![w].pc = "status", ![w].err = ""]
            /\ UNCHANGED mcs
       ELSE \E n \in wk[w].listed :
              IF mcs[n].exists
              THEN /\ mcs' = [mcs EXCEPT ![n] = NoMC]
                   /\ wk' = [wk EXCEPT ![w].listed = @ \ {n},
                                       ![w].writes = @ \cup {"mcDelete"}]
              ELSE /\ wk' = [wk EXCEPT ![w] =
                               Return([@ EXCEPT !.listed = {}],
                                      "error listing or deleting containerruntime machine configs")]
                   /\ UNCHANGED mcs
    /\ UNCHANGED <<queues, ctrcfgs, cm, cc, img, envLeft, faultsLeft, clean>>

\* the controller of a new build starts on two synced objects
InitCleanup ==
    /\ wk = [w \in Workers |-> IdleW]
    /\ envLeft = 0
    /\ faultsLeft = 0
    /\ img = NoImage
    /\ cc = TRUE
    /\ cm = TRUE
    /\ clean = [i \in Intents \cup {ImgKey} |-> FALSE]
    /\ \E spec \in ConflictSpecs, ver \in {OldHash, Hash} :
          /\ ctrcfgs = [i \in Intents |-> SyncedCfg(i, spec)]
          /\ mcs = [SyncedMCs(CHOOSE i \in Intents : TRUE, spec, ver, cm) EXCEPT
                      ![OtherMC] = [RenderedMC(SyncedCfg("b", SpecPids), TRUE) EXCEPT
                                      !.version = OldHash]]
    /\ queues = [q \in QIds |-> IF q = "ctr" THEN StartQueue(ctrcfgs) ELSE EmptyQueue(q)]

NextCleanup ==
    \/ \E w \in LifecycleWorkers :
          \/ processNextWorkItem(w)
          \/ createSeccompUseDefaultMC(w)
          \/ syncFetch(w)
          \/ syncPoolGet(w)
          \/ syncPoolApply(w)
          \/ cleanUpList(w)
          \/ cleanUpDelete(w)
          \/ syncReturnStatus(w)
          \/ workItemDone(w)
    \/ OtherPassUpdate

SpecCleanup == InitCleanup /\ [][NextCleanup]_vars

----------------------------------------------------------------------------
(* the informer's delete event: deleteContainerRuntimeConfig runs on the   *)
(* goroutine that delivers the informer's notifications, and calls         *)
(* cascadeDelete itself, with the object the notification carries          *)

\* the goroutine that runs the handlers registered with AddEventHandler
InformerGoroutines == {"inf"}

\* the object leaves the store while the controller runs: a user deletes an
\* object that has no finalizers, or another client empties the finalizers
\* of an object that is being deleted.  The delete notification carries the
\* final state of the object when the watch delivered it, and the state the
\* cache last knew (cache.DeletedFinalStateUnknown) when the watch missed it
RemoveIntent(i, h) ==
    /\ envLeft > 0
    /\ wk[h].pc = "idle"
    /\ ctrcfgs[i].exists
    /\ ctrcfgs[i].deleting \/ ctrcfgs[i].finalizers = <<>>
    /\ \E obj \in {[ctrcfgs[i] EXCEPT !.deleting = TRUE, !.finalizers = <<>>],
                   [ctrcfgs[i] EXCEPT !.deleting = TRUE]} :
          wk' = [wk EXCEPT ![h] = [IdleW EXCEPT !.pc = "deleteEvent", !.key = i, !.cfg = obj]]
    /\ ctrcfgs' = [ctrcfgs EXCEPT ![i] = NoCfg]
    /\ envLeft' = envLeft - 1
    /\ clean' = [clean EXCEPT ![i] = FALSE]
    /\ UNCHANGED <<queues, mcs, cm, cc, img, faultsLeft>>

\* deleteContainerRuntimeConfig up to the pop of cascadeDelete: the object
\* is taken from the notification or its tombstone; cascadeDelete returns
\* at once when it has no finalizers, else deletes the MachineConfig named
\* by the first
deleteContainerRuntimeConfig(h) ==
    /\ h \in InformerGoroutines
    /\ wk[h].pc = "deleteEvent"
    /\ IF Len(wk[h].cfg.finalizers) = 0
       THEN /\ wk' = [wk EXCEPT ![h] = IdleW]
            /\ UNCHANGED <<queues, ctrcfgs, mcs>>
       ELSE LET st == DeleteMC(St0(h), wk[h].cfg.finalizers[1])
            IN /\ Commit(st)
               /\ wk' = [wk EXCEPT ![h].pc = "pop", ![h].writes = st.w]
    /\ UNCHANGED <<cm, cc, img, envLeft, faultsLeft, clean>>

\* deleteContainerRuntimeConfig from the pop of cascadeDelete to its return
deleteContainerRuntimeConfigPop(h) ==
    /\ h \in InformerGoroutines
    /\ wk[h].pc = "pop"
    /\ Commit(popFinalizerFromContainerRuntimeConfig(St0(h), wk[h].cfg, 0))
    /\ wk' = [wk EXCEPT ![h] = IdleW]
    /\ UNCHANGED <<cm, cc, img, envLeft, faultsLeft, clean>>

\* the controller starts on an object that is being deleted and names its
\* MachineConfigs as finalizers, or on an object that was just created
InitDeleteEvent ==
    /\ wk = [w \in Workers \cup InformerGoroutines |-> IdleW]
    /\ envLeft = MaxEnv
    /\ faultsLeft = MaxFaults
    /\ img = NoImage
    /\ cc = TRUE
    /\ cm = TRUE
    /\ clean = [i \in Intents \cup {ImgKey} |-> FALSE]
    /\ \/ \E fins \in FinalizerLists :
             /\ ctrcfgs = [i \in Intents |->
                             [SyncedCfg(i, SpecBoth) EXCEPT !.finalizers = fins, !.deleting = TRUE]]
             /\ mcs = [n \in MCNames |->
                         IF \E k \in 1..Len(fins) : fins[k] = n
                         THEN RenderedMC(SyncedCfg(CHOOSE i \in Intents : TRUE, SpecBoth), TRUE)
                         ELSE IF n[1] = "seccomp" THEN SeccompMC ELSE NoMC]
       \/ /\ ctrcfgs = [i \in Intents |-> NewCfg(i, SpecBoth, FALSE)]
          /\ mcs = NoMCs(cm)
    /\ queues = [q \in QIds |-> IF q = "ctr" THEN StartQueue(ctrcfgs) ELSE EmptyQueue(q)]

NextDeleteEvent ==
    \/ \E w \in LifecycleWorkers :
          \/ processNextWorkItem(w)
          \/ createSeccompUseDefaultMC(w)
          \/ syncFetch(w)
          \/ syncPoolGet(w)
          \/ syncPoolApply(w)
          \/ cleanUpDuplicatedMC(w)
          \/ syncReturnStatus(w)
          \/ cascadeDelete(w)
          \/ cascadePop(w)
          \/ workItemDone(w)
    \/ \E k \in Keys("ctr") : DelayExpire("ctr", k)
    \/ \E i \in Intents, h \in InformerGoroutines : RemoveIntent(i, h)
    \/ \E h \in InformerGoroutines :
          \/ deleteContainerRuntimeConfig(h)
          \/ deleteContainerRuntimeConfigPop(h)

\* The workers and the informer's delete handler
SpecDeleteEvent == InitDeleteEvent /\ [][NextDeleteEvent]_vars

----------------------------------------------------------------------------
(* addAnnotation on its own: a pass stands in the loop over mcpPools where *)
(* it found no MachineConfig under a name that carries a suffix (another   *)
(* ContainerRuntimeConfig targets the pool), on an object without the      *)
(* suffix annotation                                                        *)

\* the object as its user and earlier passes can have left it: with or
\* without annotations of the user's, at its first or an edited generation,
\* with the conditions recorded so far, and with the finalizers and
\* MachineConfigs of the pools the loop has been through
InitAnnotate ==
    /\ envLeft = MaxEnv
    /\ faultsLeft = 0
    /\ img = NoImage
    /\ cc = TRUE
    /\ cm = TRUE
    /\ clean = [i \in Intents \cup {ImgKey} |-> FALSE]
    /\ \E i \in Intents, spec \in {s \in Specs : Syncable(s)}, notes \in BOOLEAN, gen \in 1..2,
          conds \in {<<>>, <<wrapErrorWithCondition("could not update container runtime config")>>,
                     <<wrapErrorWithCondition("")>>,
                     <<wrapErrorWithCondition("could not Create/Update MachineConfig"),
                       wrapErrorWithCondition("")>>} :
          LET mcpPools == SelectSeq(PoolList, LAMBDA p : PoolSelected(spec.sel, p))
          IN \E n \in 1..Len(mcpPools) :
                LET cfg == [NewCfg(i, spec, notes) EXCEPT
                               !.gen = gen,
                               !.obsGen = IF conds = <<>> THEN 0 ELSE gen,
                               !.conds = conds,
                               !.finalizers = [k \in 1..(n - 1) |-> SoleKey(mcpPools[k])]]
                IN /\ ctrcfgs = [j \in Intents |-> IF j = i THEN cfg ELSE NoCfg]
                   /\ mcs = [m \in MCNames |->
                               IF \E k \in 1..(n - 1) : m = SoleKey(mcpPools[k])
                               THEN RenderedMC(cfg, TRUE)
                               ELSE IF m[1] = "seccomp" THEN SeccompMC ELSE NoMC]
                   /\ queues = [q \in QIds |->
                                   IF q = "ctr" THEN QGet(QAdd(EmptyQueue(q), i))
                                   ELSE EmptyQueue(q)]
                   /\ wk = [w \in Workers |->
                               IF w \in LifecycleWorkers
                               THEN [IdleW EXCEPT !.pc = "poolApply", !.key = i, !.cfg = cfg,
                                                  !.pools = SubSeq(mcpPools, n, Len(mcpPools)),
                                                  !.name = <<"ctr", mcpPools[n], 1>>]
                               ELSE IdleW]

\* the call of addAnnotation in the loop: the suffix of the name is put on
\* the object as its MCNameSuffixAnnotationKey annotation
addAnnotationCall(w) ==
    /\ w \in CtrWorkers
    /\ wk[w].pc = "poolApply"
    /\ ~wk[w].seen.exists /\ wk[w].name[3] # 0 /\ wk[w].cfg.suffix = 0
    /\ ctrcfgs[wk[w].key].exists
    /\ LET st == addAnnotation(St0(w), wk[w].cfg, wk[w].name[3])
       IN /\ Commit(st)
          /\ wk' = [wk EXCEPT ![w] = [After(wk[w], st) EXCEPT !.pc = "annotated"]]
    /\ UNCHANGED <<cm, cc, img, envLeft, faultsLeft, clean>>

SpecAnnotate == InitAnnotate /\ [][\E w \in LifecycleWorkers : addAnnotationCall(w)]_vars

----------------------------------------------------------------------------
(* Properties                                                              *)

\* a worker is inside the sync handler of its queue
InFlight(w) == wk[w].pc \notin {"idle", "handle", "imgHandle"}

\* C1: on each queue, no two workers are inside the sync handler with the
\* same key at the same time, whatever the enqueues, failures and re-adds
OneSyncPerKey ==
    \A v, w \in Workers :
        (v # w /\ QueueOf(v) = QueueOf(w) /\ InFlight(v) /\ InFlight(w))
            => wk[v].key # wk[w].key

\* both runtime-config workers are inside the handler, and the key of one of
\* them was added again meanwhile
TwoSyncsOneReAdded ==
    /\ InFlight("w1") /\ InFlight("w2")
    /\ wk["w1"].key \in Intents
    /\ wk["w1"].key \in queues["ctr"].dirty
    /\ queues["ctr"].failures[wk["w1"].key] > 0

\* the pass of worker w has returned, it ran on an object that the pass
\* before it had synced with success, and nobody touched the object since
SecondRunOver(w) ==
    /\ wk[w].pc = "handle"
    /\ wk[w].second
    /\ clean[wk[w].key]

PoolMC(w) == mcs[getManagedKeyCtrCfg(Head(wk[w].pools), wk[w].cfg, ctrcfgs)]

\* a MachineConfig generated by another build
StaleVersion(mc) == mc.exists /\ mc.version # Hash

\* C3: a pass never skips a pool whose MachineConfig carries the version of
\* another build, whatever the observed generation and the last condition;
\* and when the iteration of that pool ends without an error the
\* MachineConfig is the one rendered from the object, stamped by this build
UpgradeForcesRewrite ==
    [][\A w \in CtrWorkers :
          /\ (wk[w].pc = "poolGet" /\ StaleVersion(PoolMC(w)) /\ wk'[w] # wk[w])
                => wk'[w].pc = "poolApply"
          /\ (wk[w].pc = "poolApply" /\ StaleVersion(wk[w].seen)
                 /\ wk'[w].pc \notin {"poolApply", "status"})
                => /\ mcs'[wk[w].name].version = Hash
                   /\ mcs'[wk[w].name].gen = wk[w].cfg.gen
                   /\ mcs'[wk[w].name].owner = wk[w].cfg.name]_vars

\* a pass over an object whose observed generation covered its generation
\* and whose last condition was success has updated a MachineConfig of the
\* build before, which now carries the version of this build
StaleRewritten ==
    \E w \in CtrWorkers :
        /\ wk[w].pc = "handle" /\ wk[w].err = ""
        /\ wk[w].cfg.exists
        /\ wk[w].cfg.obsGen >= wk[w].cfg.gen
        /\ Len(wk[w].cfg.conds) > 0
        /\ Last(wk[w].cfg.conds).type = Success
        /\ "mcUpdate" \in wk[w].writes
        /\ \A p \in Pools : PoolSelected(wk[w].cfg.spec.sel, p) => mcs[SoleKey(p)].version = Hash

\* the files of mc are those generated from the spec of cfg
RenderedFrom(cfg, mc) ==
    \E mergeOK \in BOOLEAN : mc.files = GeneratedFiles(cfg.spec, mergeOK)

\* C4: the skip condition lets a pass skip a pool only when the
\* MachineConfig of the pool was generated from the spec the pass has read,
\* so no generation is left without its regeneration
SkipOnlyWhenRendered ==
    \A w \in CtrWorkers :
        (wk[w].pc = "poolGet" /\ Len(wk[w].cfg.conds) > 0 /\ SkipPool(wk[w].cfg, PoolMC(w)))
            => RenderedFrom(wk[w].cfg, PoolMC(w))

\* the pass of worker w was a cascade pass on an object with one finalizer
\* and has returned nil
CascadeOfOneDone(w) ==
    /\ wk[w].pc = "handle" /\ wk[w].err = ""
    /\ wk[w].cfg.exists /\ wk[w].cfg.deleting
    /\ Len(wk[w].cfg.finalizers) = 1

\* C5: after a cascade pass that returned nil on a deleted object with one
\* finalizer, the object has no finalizer and the MachineConfig the
\* finalizer named is not in the store
CascadeDeleteComplete ==
    \A w \in CtrWorkers :
        CascadeOfOneDone(w) =>
            /\ Len(ctrcfgs[wk[w].key].finalizers) = 0
            /\ ~mcs[wk[w].cfg.finalizers[1]].exists

\* such a cascade pass has returned: it deleted the MachineConfig, its patch
\* took the last finalizer and the object left the store
CascadeOfOneReturned ==
    \E w \in CtrWorkers :
        /\ CascadeOfOneDone(w)
        /\ wk[w].writes = {"mcDelete", "patch"}
        /\ ~ctrcfgs[wk[w].key].exists

\* the finalizer tokens of an object
Tokens(cfg) == {cfg.finalizers[n] : n \in 1..Len(cfg.finalizers)}

NoPoolFound == "could not find any MachineConfigPool"

NilOrEmpty(sel) == sel.nil \/ sel.req = {}

\* C7: a nil or empty selector selects no pool; the pass on an object with
\* such a selector goes from the read to the status call with the error
\* that no pool was found and no pool to go over; the status call records
\* the failing condition, returns that error and leaves every MachineConfig
\* as it is, and up to its return the pass has written nothing for the
\* object but that status
SelectorSafety ==
    [][/\ \A sel \in {SelNil, Sel({})} : \A p \in Pools : ~PoolSelected(sel, p)
       /\ \A w \in CtrWorkers :
            LET r == wk[w]
                cur == ctrcfgs[r.key]
            IN /\ (/\ r.pc = "fetch" /\ wk'[w] # r
                    /\ cur.exists /\ ~cur.deleting /\ cc
                    /\ validateUserContainerRuntimeConfig(cur.spec)
                    /\ NilOrEmpty(cur.spec.sel))
                      => /\ wk'[w].pc = "status"
                         /\ wk'[w].err = NoPoolFound
                         /\ wk'[w].pools = <<>>
               /\ (/\ r.pc = "status" /\ wk'[w] # r
                    /\ r.err = NoPoolFound
                    /\ NilOrEmpty(r.cfg.spec.sel))
                      => /\ wk'[w].pc = "handle"
                         /\ wk'[w].err = NoPoolFound
                         /\ mcs' = mcs
                         /\ wk'[w].writes \subseteq {"status", "cmCreate", "seccompCreate"}
                         /\ (cur.exists /\ wk'[w].nstatus > r.nstatus) =>
                               Last(ctrcfgs'[r.key].conds) = wrapErrorWithCondition(NoPoolFound)]_vars

\* a pass on an object with an empty selector has returned the error, with
\* the failing condition recorded and no MachineConfig of the object around
EmptySelectorReported ==
    \E w \in CtrWorkers :
        /\ wk[w].pc = "handle" /\ wk[w].err = NoPoolFound
        /\ SelectorEmpty(wk[w].cfg.spec.sel)
        /\ ctrcfgs[wk[w].key].exists
        /\ Len(ctrcfgs[wk[w].key].conds) > 0
        /\ Last(ctrcfgs[wk[w].key].conds).type = Failure
        /\ \A n \in MCNames : n[1] = "ctr" => ~mcs[n].exists

\* C8: the condition list of an object only ever changes by one condition
\* appended whose message differs from the last one (or to an empty list);
\* the status call that ends a pass leaves its condition last in the list,
\* which is one longer when it was empty or its last message differed and
\* as long as before otherwise, so that recordings of one message on an
\* empty list keep it at length 1
StatusListMonotonic ==
    [][\A i \in Intents :
          (ctrcfgs[i].exists /\ ctrcfgs'[i].exists) =>
             LET old == ctrcfgs[i].conds
                 new == ctrcfgs'[i].conds
             IN /\ new # old =>
                      /\ Len(new) = Len(old) + 1
                      /\ SubSeq(new, 1, Len(old)) = old
                      /\ Len(old) = 0 \/ Last(new).message # Last(old).message
                /\ \A w \in CtrWorkers :
                      (/\ wk[w].key = i /\ wk[w].pc = "status" /\ wk'[w].pc = "handle"
                       /\ wk'[w].nstatus > wk[w].nstatus) =>
                         LET cond == wrapErrorWithCondition(wk[w].err)
                         IN /\ Last(new) = cond
                            /\ Len(new) = IF Len(old) = 0 \/ Last(old).message # cond.message
                                           THEN Len(old) + 1 ELSE Len(old)]_vars

\* three passes in a row have recorded the same failure on an object that
\* started without conditions, and the list has length 1
SameFailureThrice ==
    \E w \in CtrWorkers :
        /\ wk[w].pc = "handle" /\ wk[w].err # ""
        /\ queues["ctr"].failures[wk[w].key] = 2
        /\ "status" \in wk[w].writes
        /\ ctrcfgs[wk[w].key].exists
        /\ Len(ctrcfgs[wk[w].key].conds) = 1
        /\ Last(ctrcfgs[wk[w].key].conds).message = wk[w].err

\* the errors of the validation of the spec and of the selection of pools
ValidationErrors == {"invalid ContainerRuntimeConfig", NoPoolFound}

\* worker w hands the validation error of its pass to handleErr
ValidationErrorHandled(w) ==
    /\ wk[w].pc = "handle"
    /\ wk[w].err \in ValidationErrors
    /\ wk'[w].pc = "idle"

PassFailed(q, k) ==
    \E w \in Workers :
        /\ QueueOf(w) = q /\ wk[w].key = k
        /\ wk[w].pc \in {"handle", "imgHandle"}
        /\ wk[w].err # ""

\* a worker of queue q has taken key k off the queue and enters the handler
Dispatched(q, k) ==
    \E w \in Workers :
        /\ QueueOf(w) = q /\ wk[w].key = k
        /\ wk[w].pc \in {"seccomp", "imgSync"}

ResultHandled(w, q, k) ==
    /\ QueueOf(w) = q /\ wk[w].key = k
    /\ wk[w].pc \in {"handle", "imgHandle"}
    /\ wk'[w].pc = "idle"

\* C11: on both queues the retry count of a key never exceeds maxRetries; it
\* changes only when a worker hands the result of a pass on the key to the
\* error handler: to 0 after a pass without error, one up after a failed
\* pass while it is below maxRetries, and to 0, with the key in the delaying
\* queue, after a pass that fails when it has reached maxRetries
RetryCountBounded ==
    [][\A q \in QIds : \A k \in Keys(q) :
          LET n == queues[q].failures[k]
              n2 == queues'[q].failures[k]
          IN /\ n <= maxRetries /\ n2 <= maxRetries
             /\ n2 # n => \E w \in Workers : ResultHandled(w, q, k)
             /\ \A w \in Workers :
                   ResultHandled(w, q, k) =>
                      /\ n2 = IF wk[w].err = "" THEN 0
                              ELSE IF n < maxRetries THEN n + 1 ELSE 0
                      /\ wk[w].err # "" => k \in queues'[q].waiting]_vars

\* on both queues a key that has only ever failed waits with its retry count
\* back at 0: the pass at the ceiling has cleared it
CountClearedAtCeiling ==
    /\ img.exists /\ img.cv = "bad"
    /\ ImgKey \in queues["img"].waiting
    /\ queues["img"].failures[ImgKey] = 0
    /\ \E i \in Intents :
          /\ ctrcfgs[i].exists /\ ctrcfgs[i].spec = SpecBadLevel
          /\ ctrcfgs[i].gen = 1 /\ ctrcfgs[i].uid = 0
          /\ i \in queues["ctr"].waiting
          /\ queues["ctr"].failures[i] = 0

\* the pass of worker w has read a live object and has returned, and the
\* object is in the store as the pass read it
LivePassOver(w) ==
    /\ wk[w].pc = "handle"
    /\ wk[w].cfg.exists /\ ~wk[w].cfg.deleting
    /\ ctrcfgs[wk[w].key].exists /\ ~ctrcfgs[wk[w].key].deleting
    /\ ctrcfgs[wk[w].key].uid = wk[w].cfg.uid

\* C12: a pass on a live object has recorded a status condition exactly
\* once when it returns, and the last condition of the object is that of
\* the result of the pass, whichever step failed
StatusRecordedOnce ==
    \A w \in CtrWorkers :
        LivePassOver(w) =>
            /\ wk[w].nstatus = 1
            /\ Len(ctrcfgs[wk[w].key].conds) > 0
            /\ Last(ctrcfgs[wk[w].key].conds) = wrapErrorWithCondition(wk[w].err)

\* C13: the status call returns to the pass exactly the error it was given,
\* whether its status update was written or failed
StatusReturnsGivenError ==
    [][\A w \in CtrWorkers :
          (wk[w].pc = "status" /\ wk'[w] # wk[w]) =>
              /\ wk'[w].pc = "handle"
              /\ wk'[w].err = wk[w].err]_vars

\* a pass on a live object has returned success although its status update
\* failed: nothing was recorded and the object is as the pass read it
SuccessKeptOverFailedUpdate ==
    \E w \in CtrWorkers :
        /\ LivePassOver(w)
        /\ wk[w].err = ""
        /\ wk[w].nstatus = 0
        /\ ctrcfgs[wk[w].key].conds = wk[w].cfg.conds

\* an object with a pids limit and no storage override whose selector
\* selects one pool
PidsOnlyOnePool(cfg) ==
    /\ cfg.exists /\ ~cfg.deleting
    /\ cfg.spec.pids # <<>> /\ cfg.spec.overlay = 0
    /\ Len(getPoolsForContainerRuntimeConfig(cfg)) = 1

\* the generated MachineConfigs in the store
StoredCtrMCs(store) == {n \in MCNames : n[1] = "ctr" /\ store[n].exists}

\* C14: on an object with only a pids limit that selects one pool, still in
\* the store, with no generated MachineConfig in the store, the iteration of the pool that ends
\* without an error has created the one MachineConfig of the pool, with the
\* drop-in file carrying the pids limit and no storage file, and left its
\* name as the one finalizer of the object; the status update that ends the
\* successful pass leaves success as the last condition, that one finalizer
\* and every MachineConfig as it is
PidsOnlyEndToEnd ==
    [][\A w \in CtrWorkers :
          LET r == wk[w]
              name == SoleKey(getPoolsForContainerRuntimeConfig(r.cfg)[1])
          IN /\ (/\ r.pc = "poolApply" /\ PidsOnlyOnePool(r.cfg)
                 /\ StoredCtrMCs(mcs) = {} /\ r.cfg.finalizers = <<>>
                 /\ ctrcfgs[r.key].exists /\ ctrcfgs[r.key].uid = r.cfg.uid
                 /\ wk'[w].pc = "cleanup")
                => /\ r.name = name
                   /\ StoredCtrMCs(mcs') = {name}
                   /\ "mcCreate" \in wk'[w].writes
                   /\ "mcUpdate" \notin wk'[w].writes
                   /\ mcs'[name].files =
                         {[file |-> "crio-dropin", overlay |-> 0,
                           logLevel |-> r.cfg.spec.logLevel, pids |-> r.cfg.spec.pids]}
                   /\ ctrcfgs'[r.key].finalizers = <<name>>
             /\ (/\ r.pc = "status" /\ PidsOnlyOnePool(r.cfg) /\ r.err = ""
                 /\ r.cfg.finalizers = <<>> /\ "mcCreate" \in r.writes
                 /\ wk'[w].nstatus > r.nstatus
                 /\ ctrcfgs[r.key].exists /\ ctrcfgs[r.key].uid = r.cfg.uid)
                => /\ wk'[w].pc = "handle" /\ wk'[w].err = ""
                   /\ Last(ctrcfgs'[r.key].conds) = wrapErrorWithCondition("")
                   /\ ctrcfgs'[r.key].finalizers = <<name>>
                   /\ mcs' = mcs /\ mcs[name].exists
                   /\ \A f \in mcs[name].files : f.file # "storage.conf"]_vars

\* a pass on a pids-only object of one pool has returned success after
\* creating the MachineConfig, which is the only generated one, and the
\* object has its name as its one finalizer and success as last condition
PidsOnlySynced ==
    \E w \in CtrWorkers :
        /\ LivePassOver(w) /\ wk[w].err = ""
        /\ PidsOnlyOnePool(wk[w].cfg)
        /\ wk[w].cfg.finalizers = <<>>
        /\ wk[w].writes = {"mcCreate", "patch", "status"}
        /\ StoredCtrMCs(mcs) = {SoleKey("worker")}
        /\ ctrcfgs[wk[w].key].finalizers = <<SoleKey("worker")>>
        /\ Last(ctrcfgs[wk[w].key].conds).type = Success

\* the names of the registries MachineConfigs
RegNames == {getManagedKeyReg(p) : p \in Pools}

\* worker w runs syncImageConfig to its end with both singletons and the
\* ControllerConfig there, and no call fails
ImagePassWrites(w) ==
    /\ wk[w].pc = "imgSync" /\ wk'[w].pc = "imgHandle"
    /\ ImageConfigWrites(img, cc)
    /\ wk'[w].err = ""

\* C15: in a pass of syncImageConfig that reaches every pool, the
\* registries MachineConfig of a pool is left as it is exactly when it
\* exists with the freshly rendered payload and the version of this build,
\* and is otherwise the rendered one afterwards (so one with the rendered
\* payload and another version is written); and the pass that follows a
\* successful one with nothing changed in between writes nothing
DriftCheckExact ==
    [][\A w \in ImgWorkers :
          ImagePassWrites(w) =>
             /\ \A n \in RegNames :
                   LET skipped == /\ mcs[n].exists
                                  /\ mcs[n].files = RegistriesMC(img).files
                                  /\ mcs[n].version = Hash
                   IN /\ (mcs'[n] = mcs[n]) <=> skipped
                      /\ ~skipped => /\ mcs'[n] = RegistriesMC(img)
                                      /\ wk'[w].writes = {"mcWrite"}
             /\ clean[ImgKey] => (mcs' = mcs /\ wk'[w].writes = {})]_vars

\* a pass that follows a successful pass, with nothing changed in between,
\* has returned and written nothing
SecondImagePassDone ==
    \E w \in ImgWorkers :
        /\ wk[w].pc = "imgHandle" /\ wk[w].second /\ wk[w].err = ""
        /\ wk[w].writes = {}
        /\ \A n \in RegNames : mcs[n] = RegistriesMC(img)

\* C16: no registries MachineConfig in the store, whether the bootstrap or a
\* pass of syncImageConfig generated it, has the registry of the release
\* image among the blocked registries of its payload; and a pass that finds
\* a release image that does not parse writes nothing and returns
\* errParsingReference
ReleaseRegistryNeverBlocked ==
    /\ \A n \in RegNames :
          mcs[n].exists => \A f \in mcs[n].files : ReleaseRegistry \notin f.blocked
    /\ \A w \in ImgWorkers :
          (wk[w].pc = "imgHandle" /\ wk[w].err = errParsingReference) => wk[w].writes = {}

\* the Image config asks to block the registry of the release image and
\* another one, and a pass has written MachineConfigs that block the other
\* one only
ReleaseRegistryDropped ==
    \E w \in ImgWorkers :
        /\ wk[w].pc = "imgHandle" /\ wk[w].err = "" /\ wk[w].writes = {"mcWrite"}
        /\ img.blocked = {"other.io", ReleaseRegistry}
        /\ \A n \in RegNames :
              /\ mcs[n].version = Hash
              /\ mcs[n].files = registriesConfigIgnition(img.policy, {"other.io"})

\* C17: a pass of syncImageConfig that finds the Image config or the
\* ClusterVersion absent returns nil and leaves every object of the store as
\* it is; and after a pass that returned nil the key has no retry counted,
\* is not waiting for a retry, and is in the queue only if an event added it
\* during the pass
AbsentSingletonIsNoError ==
    [][\A w \in ImgWorkers :
          /\ (wk[w].pc = "imgSync" /\ wk'[w].pc = "imgHandle"
                 /\ (~img.exists \/ img.cv = "absent"))
                => /\ wk'[w].err = "" /\ wk'[w].writes = {}
                   /\ mcs' = mcs /\ ctrcfgs' = ctrcfgs /\ cm' = cm
          /\ (wk[w].pc = "imgHandle" /\ wk[w].err = "" /\ wk'[w].pc = "idle")
                => LET q == queues["img"]
                       q2 == queues'["img"]
                   IN /\ q2.failures[wk[w].key] = 0
                      /\ q2.waiting = q.waiting
                      /\ (\E n \in 1..Len(q2.queue) : q2.queue[n] = wk[w].key)
                            <=> wk[w].key \in q.dirty]_vars

\* a pass has returned nil, with a registries MachineConfig missing, because
\* a singleton is absent (nothing has changed since the start)
AbsentSingletonPassDone ==
    \E w \in ImgWorkers :
        /\ wk[w].pc = "imgHandle" /\ wk[w].err = "" /\ wk[w].writes = {}
        /\ ~img.exists \/ img.cv = "absent"
        /\ envLeft = MaxEnv
        /\ \A n \in RegNames : ~mcs[n].exists

\* C18: no step of the image worker changes a ContainerRuntimeConfig (its
\* finalizers included), removes a MachineConfig from the store, or changes
\* a MachineConfig other than the registries ones
ImagePassDeletesNothing ==
    [][\A w \in ImgWorkers :
          wk'[w] # wk[w] =>
             /\ ctrcfgs' = ctrcfgs
             /\ \A n \in MCNames :
                   /\ mcs[n].exists => mcs'[n].exists
                   /\ n \notin RegNames => mcs'[n] = mcs[n]]_vars

\* a pass has written the registries MachineConfigs for an Image config
\* that asks for nothing; the object of the store has its finalizer and its
\* MachineConfig
ImagePassWroteBesideIntent ==
    \E w \in ImgWorkers :
        /\ wk[w].pc = "imgHandle" /\ wk[w].writes = {"mcWrite"}
        /\ img.exists /\ img.policy = "none" /\ img.blocked = {}
        /\ \A n \in RegNames : mcs[n].exists
        /\ \A i \in Intents :
              /\ ctrcfgs[i].finalizers = <<SoleKey("worker")>>
              /\ mcs[SoleKey("worker")].exists

\* C19: the MachineConfig of the image bootstrap carries no version and an
\* owner without a name; a pass of syncImageConfig that reaches every pool
\* leaves in place of such a MachineConfig the rendered one, with the
\* version of this build and the Image config as owner, also when the
\* payload is the same
BootstrapOutputRewritten ==
    [][\A w \in ImgWorkers :
          \A n \in RegNames :
             \A release \in {"ok"}, image \in {img, NoImage} :
                LET boot == RunImageBootstrap(release, image)
                IN /\ boot.version = NoHash /\ boot.owner = "Image"
                   /\ (ImagePassWrites(w) /\ mcs[n] = boot)
                         => /\ mcs'[n].files = RegistriesMC(img).files
                            /\ mcs'[n].version = Hash
                            /\ mcs'[n].owner = "Image/cluster"
                            /\ wk'[w].writes = {"mcWrite"}]_vars

\* a pass found the MachineConfig of the bootstrap with the payload it
\* renders, and has left the stamped one in its place
SamePayloadRestamped ==
    \E w \in ImgWorkers :
        /\ wk[w].pc = "imgHandle" /\ wk[w].err = "" /\ envLeft = MaxEnv
        /\ wk[w].seen = RunImageBootstrap("ok", img)
        /\ wk[w].seen.files = RegistriesMC(img).files
        /\ mcs[getManagedKeyReg(PoolList[1])] = RegistriesMC(img)

\* worker w is in the pass of the sentinel key
SentinelPass(w) == wk[w].key = SentinelKey /\ wk[w].pc = "seccomp"

\* C20: at the start the sentinel key is in the runtime-config queue, and a
\* worker eventually runs its pass; the pass goes from the seccomp step
\* straight to its return, without reading or changing a
\* ContainerRuntimeConfig, and when it returns nil the marker ConfigMap and
\* the seccomp MachineConfig of every built-in pool are in the store
SentinelPassRuns ==
    /\ \E n \in 1..Len(queues["ctr"].queue) : queues["ctr"].queue[n] = SentinelKey
    /\ <>(\E w \in CtrWorkers : SentinelPass(w))
    /\ [][\A w \in CtrWorkers :
            (SentinelPass(w) /\ wk'[w] # wk[w]) =>
                /\ wk'[w].pc = "handle"
                /\ wk'[w].cfg = NoCfg
                /\ ctrcfgs' = ctrcfgs
                /\ wk'[w].err = "" =>
                      /\ cm'
                      /\ \A p \in Pools :
                            builtInLabelKey \in PoolLabels(p) => mcs'[<<"seccomp", p, 0>>].exists]_vars

\* the sentinel pass has created seccomp MachineConfigs and the marker and
\* returned nil, with a ContainerRuntimeConfig in the store
SentinelPassCreated ==
    \E w \in CtrWorkers :
        /\ wk[w].key = SentinelKey /\ wk[w].pc = "handle" /\ wk[w].err = ""
        /\ wk[w].writes = {"cmCreate", "seccompCreate"}
        /\ cm /\ \A p \in Pools : mcs[<<"seccomp", p, 0>>].exists
        /\ \E i \in Intents : ctrcfgs[i].exists

\* a pass on key k has returned nil
PassSucceeded(k) == \E w \in CtrWorkers : wk[w].pc = "handle" /\ wk[w].key = k /\ wk[w].err = ""

\* C21: with two workers in createSeccompUseDefaultMC at once, a pass on the
\* sentinel key and a pass on the key of the object each eventually return
\* nil, and from some point on the store has the marker ConfigMap and, on
\* every built-in pool, the seccomp MachineConfig with the one content
SeccompRaceTolerated ==
    /\ <>PassSucceeded(SentinelKey)
    /\ \A i \in Intents : <>PassSucceeded(i)
    /\ <>[](/\ cm
            /\ \A p \in Pools :
                  builtInLabelKey \in PoolLabels(p) => mcs[<<"seccomp", p, 0>>] = SeccompMC)

\* a worker lost the race: its Create found what the other worker had
\* created since its Get, and its pass failed, while the other worker is
\* still in the step
SeccompRaceLost ==
    \E w \in CtrWorkers, v \in CtrWorkers :
        /\ w # v
        /\ wk[w].pc = "handle" /\ wk[w].err = SeccompFailed
        /\ wk[v].pc \in {"seccompGet", "seccompCreate", "seccompMark"}
        /\ "seccompCreate" \in wk[v].writes

\* C22: a pass that read a MachineConfig another client has updated once
\* since (and only that) does not fail on its Update
SingleConflictTolerated ==
    [][\A w \in CtrWorkers :
         (/\ syncPoolApply(w)
          /\ wk[w].seen.exists
          /\ ~wk[w].seen.touched
          /\ mcs[wk[w].name] = [wk[w].seen EXCEPT !.touched = TRUE])
         => wk'[w].err # "could not Create/Update MachineConfig"]_vars

\* C23: when a pass on a live object has written a MachineConfig with the
\* CRI-O drop-in but without storage.conf, the overlay size being set (the
\* storage merge failed), and has returned, the last condition of the object
\* is a failure
MergeFailureShown ==
    \A w \in CtrWorkers :
        (/\ LivePassOver(w)
         /\ ctrcfgs[wk[w].key].gen = wk[w].cfg.gen
         /\ wk[w].cfg.spec.overlay # 0
         /\ wk[w].cfg.spec.logLevel # "" \/ wk[w].cfg.spec.pids # <<>>
         /\ wk[w].writes \cap {"mcCreate", "mcUpdate"} # {}
         /\ \E n \in MCNames : n[1] = "ctr" /\ mcs[n] = RenderedMC(wk[w].cfg, FALSE))
        => /\ Len(ctrcfgs[wk[w].key].conds) > 0
           /\ Last(ctrcfgs[wk[w].key].conds).type = Failure

\* the names in a list of finalizers
Names(fins) == {fins[n] : n \in 1..Len(fins)}

PopLeavesTail ==
    [][\A w \in CtrWorkers :
         (/\ cascadePop(w)
          /\ wk'[w].err = ""
          /\ ctrcfgs[wk[w].key].exists
          /\ ctrcfgs[wk[w].key].finalizers = wk[w].cfg.finalizers)
         => ctrcfgs'[wk[w].key].finalizers = Tail(ctrcfgs[wk[w].key].finalizers)]_vars

\* C26: a patch that attaches a finalizer to an object another writer has
\* changed since the synchronizer read it keeps what the object holds and
\* adds the one name to its finalizers
AttachPatchKeepsOtherChanges ==
    [][\A w \in CtrWorkers :
         (/\ attachPatch(w)
          /\ wk'[w].err = ""
          /\ ctrcfgs[wk[w].key].exists)
         => ctrcfgs'[wk[w].key] =
              [ctrcfgs[wk[w].key] EXCEPT
                 !.finalizers = IF wk[w].name \in Names(@) THEN @ ELSE Append(@, wk[w].name)]]_vars

\* C27: whenever the observed generation of an object changes, the condition
\* recorded with it is a success and the new value is the generation of the
\* object as the recording pass read it
ObservedGenerationProcessed ==
    [][\A i \in Intents :
         (/\ ctrcfgs[i].exists /\ ctrcfgs'[i].exists
          /\ ctrcfgs'[i].uid = ctrcfgs[i].uid
          /\ ctrcfgs'[i].obsGen # ctrcfgs[i].obsGen)
         => /\ Last(ctrcfgs'[i].conds).type = Success
            /\ \E w \in CtrWorkers :
                  wk[w].key = i /\ ctrcfgs'[i].obsGen = wk[w].cfg.gen]_vars

\* C28: a step of the maintenance pass that deletes a MachineConfig deletes
\* a generated containerruntime MachineConfig that does not carry the
\* running version when it is deleted
CleanupDeletesOnlyStale ==
    [][\A w \in CtrWorkers, n \in MCNames :
         (cleanUpDelete(w) /\ mcs[n].exists /\ ~mcs'[n].exists)
         => IsGeneratedCtrCfg(n) /\ mcs[n].version # Hash]_vars

\* the kinds of write of createSeccompUseDefaultMC
SeccompWrites == {"seccompCreate", "cmCreate"}

\* C29: a pass whose key names no object returns nil and has written nothing
\* but what the seccomp step creates; a step of a pass that read an object
\* with a deletion timestamp creates and changes no MachineConfig, deletes
\* at most the one its first finalizer names, records no status, and leaves
\* the object as it is but for finalizers, of which it adds none; without
\* finalizers the pass returns nil at once
AbsentOrDeletingPass ==
    /\ [](\A w \in CtrWorkers :
            (wk[w].pc = "handle" /\ wk[w].key \in Intents /\ ~wk[w].cfg.exists)
            => wk[w].err = "" /\ wk[w].writes \subseteq SeccompWrites /\ wk[w].nstatus = 0)
    /\ [](\A w \in CtrWorkers :
            (wk[w].cfg.exists /\ wk[w].cfg.deleting)
            => /\ wk[w].nstatus = 0
               /\ wk[w].writes \subseteq SeccompWrites \cup {"mcDelete", "patch"}
               /\ wk[w].cfg.finalizers = <<>>
                    => wk[w].pc = "handle" /\ wk[w].err = ""
                       /\ wk[w].writes \subseteq SeccompWrites)
    /\ [][\A w \in CtrWorkers :
            (wk[w].cfg.exists /\ wk[w].cfg.deleting /\ wk'[w] # wk[w])
            => /\ \A n \in MCNames :
                    \/ mcs'[n] = mcs[n]
                    \/ ~mcs'[n].exists /\ n = wk[w].cfg.finalizers[1]
               /\ LET old == ctrcfgs[wk[w].key]
                      new == ctrcfgs'[wk[w].key]
                  IN \/ new = old
                     \/ new = NoCfg
                     \/ /\ new = [old EXCEPT !.finalizers = new.finalizers]
                        /\ Names(new.finalizers) \subseteq Names(wk[w].cfg.finalizers)]_vars

\* a cascade pass on an object with two finalizers has returned nil: it
\* deleted one MachineConfig and popped one finalizer
CascadePassOnly ==
    \E w \in CtrWorkers :
        /\ wk[w].pc = "handle" /\ wk[w].err = ""
        /\ wk[w].cfg.exists /\ wk[w].cfg.deleting
        /\ Len(wk[w].cfg.finalizers) = 2
        /\ {"mcDelete", "patch"} \subseteq wk[w].writes
        /\ Len(ctrcfgs[wk[w].key].finalizers) = 1

\* the object is gone and so are the generated MachineConfigs
CascadeOver ==
    \A i \in Intents :
        /\ ~ctrcfgs[i].exists
        /\ \A n \in MCNames : IsGeneratedCtrCfg(n) => ~mcs[n].exists

\* C30: an object with a deletion timestamp and k >= 2 finalizers: unless a
\* store call fails or conflicts, the object ends without finalizers (it
\* leaves the store) with all k MachineConfigs deleted, and as long as no
\* call has failed no MachineConfig is left when the finalizers are used up
CascadeOfManyCompletes ==
    /\ <>(faultsLeft # MaxFaults) \/ <>[]CascadeOver
    /\ [](\A i \in Intents :
            (faultsLeft = MaxFaults /\ ~ctrcfgs[i].exists)
            => \A n \in MCNames : IsGeneratedCtrCfg(n) => ~mcs[n].exists)

\* the last pass of a cascade has returned without any failed call: the
\* object has left the store and no generated MachineConfig is there
CascadeOfManyDone ==
    /\ faultsLeft = MaxFaults
    /\ CascadeOver
    /\ \E w \in CtrWorkers :
          /\ wk[w].pc = "handle" /\ wk[w].err = ""
          /\ wk[w].cfg.deleting /\ Len(wk[w].cfg.finalizers) = 1
          /\ queues["ctr"].failures[wk[w].key] = 0

\* the runtime-config queue holds key k nowhere: not queued, not marked
\* dirty, not being processed, not waiting for a delay to run out
KeyIdle(k) ==
    /\ k \notin queues["ctr"].dirty
    /\ k \notin queues["ctr"].processing
    /\ k \notin queues["ctr"].waiting
    /\ \A n \in 1..Len(queues["ctr"].queue) : queues["ctr"].queue[n] # k

\* a step of the controller (no change of a user's) adds the key of intent
\* i, live before and after the step, to the queue
KeyAddedByController(i) ==
    /\ envLeft' = envLeft
    /\ ctrcfgs[i].exists /\ ~ctrcfgs[i].deleting
    /\ ctrcfgs'[i].exists /\ ~ctrcfgs'[i].deleting
    /\ i \in queues'["ctr"].dirty /\ i \notin queues["ctr"].dirty

\* C31: the controller's writes to a live intent do not enqueue its key (a
\* key of a live intent is added by a step of the controller only when its
\* retry delay runs out), and from some point on the key of an intent whose
\* last pass succeeded, unchanged since, is nowhere in the queue
NoSelfTriggeredReconcile ==
    /\ [][\A i \in Intents : KeyAddedByController(i) => i \in queues["ctr"].waiting]_vars
    /\ \A i \in Intents : <>[](clean[i] => KeyIdle(i))

\* a pass on a live intent has written its status and its finalizers and
\* succeeded, and the key of the intent is nowhere in the queue
SyncedAndIdle ==
    \E i \in Intents :
        /\ clean[i] /\ KeyIdle(i)
        /\ ctrcfgs[i].exists /\ ~ctrcfgs[i].deleting
        /\ ctrcfgs[i].finalizers # <<>>
        /\ ctrcfgs[i].obsGen = ctrcfgs[i].gen
        /\ envLeft < MaxEnv

\* the delete handler is inside cascadeDelete on an object of key k
HandlerInCascade(k) ==
    \E h \in InformerGoroutines : wk[h].pc = "pop" /\ wk[h].key = k

\* C32: no cascadeDelete of an intent runs while a pass of a worker (a
\* synchronization or another cascade) is in flight on the key of that
\* intent, the cascadeDelete of the informer's delete event included
CascadeSerializedWithPasses ==
    \A k \in Intents :
        HandlerInCascade(k) => \A w \in CtrWorkers : ~(InFlight(w) /\ wk[w].key = k)

\* the object has been observed at its generation
Observed(cfg) == cfg.exists /\ cfg.obsGen >= cfg.gen

\* C33: an intent whose observed generation has reached its generation has
\* a condition in its list, in the store and in the copy a pass holds, and
\* no pass reads the last condition of an empty list in its skip condition
LastConditionDefined ==
    /\ \A i \in Intents : Observed(ctrcfgs[i]) => Len(ctrcfgs[i].conds) > 0
    /\ \A w \in CtrWorkers :
          /\ Observed(wk[w].cfg) => Len(wk[w].cfg.conds) > 0
          /\ wk[w].pc # "panic"

\* a pass has evaluated the skip condition on a MachineConfig that exists,
\* for an object observed at its generation whose last condition, a failure,
\* was recorded by an earlier pass
SkipReadRecordedFailure ==
    \E w \in CtrWorkers :
        /\ wk[w].pc = "poolApply"
        /\ wk[w].seen.exists
        /\ Observed(wk[w].cfg)
        /\ Len(wk[w].cfg.conds) > 0
        /\ Last(wk[w].cfg.conds).type = Failure

\* a step writes the suffix annotation of intent i
SuffixAnnotated(i) ==
    /\ ctrcfgs[i].exists /\ ctrcfgs'[i].exists
    /\ ctrcfgs'[i].suffix # ctrcfgs[i].suffix

\* C34: the write of the suffix annotation changes that annotation alone:
\* the other annotations of the intent, its spec, its finalizers and its
\* status are after the write what they were before it
SuffixAnnotationOnly ==
    [][\A i \in Intents :
          SuffixAnnotated(i) =>
              ctrcfgs'[i] = [ctrcfgs[i] EXCEPT !.suffix = ctrcfgs'[i].suffix]]_vars

============================================================================
